---- MODULE Spec2Model ----
(***************************************************************************)
(* Budget Calculation Engine of budget-tracker (src/src/lib/budget-engine.ts) *)
(* and the page / EnvelopeBudget component that drive it.                  *)
(*                                                                         *)
(* Money is modelled in whole currency units (integers); months are        *)
(* <<year, month>> pairs standing for the "YYYY-MM" strings, dates are      *)
(* <<year, month, day>> triples standing for "YYYY-MM-DD".                 *)
(***************************************************************************)
EXTENDS Integers, Sequences, FiniteSets, TLC

VARIABLES
  data,     \* BudgetEngine.data: the ledger snapshot the engine holds by reference
  now,      \* the month new Date() falls in
  call,     \* the last engine call: its arguments, the ledger before it, what it returned
  ops,      \* number of calls and ledger changes made so far
  page      \* the page component's state: its data.budgets array, transactions,
            \* selectedMonth, view and settings.autoAssignPriority

vars == <<data, now, call, ops, page>>

----------------------------------------------------------------------------
\* Bounds of the model

\* number of consecutive months the ledger spans, starting at FirstMonth
NumMonths == 3
\* largest amount of a transaction
MaxAmount == 2
\* largest amount assigned or unassigned by one assignMoney call
MaxAssign == 1
\* largest number of transactions in the ledger
MaxTx == 3
\* number of handler runs of the page followed
MaxUIOps == 5
\* largest number of engine calls and ledger changes in one run
MaxOps == 3

----------------------------------------------------------------------------
\* Small helpers

Max(a, b) == IF a >= b THEN a ELSE b

Min(a, b) == IF a <= b THEN a ELSE b

Abs(a) == IF a < 0 THEN -a ELSE a

RECURSIVE SeqSum(_)
SeqSum(s) == IF s = <<>> THEN 0 ELSE Head(s) + SeqSum(Tail(s))

\* index of the first element of s satisfying Test, 0 when there is none
\* (Array.prototype.find / findIndex)
FindIndex(s, Test(_)) ==
  IF \E i \in 1..Len(s) : Test(s[i])
  THEN CHOOSE i \in 1..Len(s) : Test(s[i]) /\ \A j \in 1..(i-1) : ~Test(s[j])
  ELSE 0

----------------------------------------------------------------------------
\* The ledger's domain

\* a slip: January goes to December of the same year
getPreviousMonthSameYear(month) ==
  IF month[2] = 1 THEN <<month[1], 12>> ELSE <<month[1], month[2] - 1>>

\* the month before a "YYYY-MM" month; January goes to December of the year before
getPreviousMonth(month) ==
  IF month[2] = 1 THEN <<month[1] - 1, 12>> ELSE <<month[1], month[2] - 1>>

\* the month after (page navigation only)
getNextMonth(month) ==
  IF month[2] = 12 THEN <<month[1] + 1, 1>> ELSE <<month[1], month[2] + 1>>

FirstMonth == <<2024, 12>>

RECURSIVE MonthAt(_)
MonthAt(i) == IF i = 1 THEN FirstMonth ELSE getNextMonth(MonthAt(i - 1))

Months == {MonthAt(i) : i \in 1..NumMonths}

\* date.startsWith(month) for a "YYYY-MM-DD" date and a "YYYY-MM" month
startsWith(date, month) == date[1] = month[1] /\ date[2] = month[2]

\* a part of DEFAULT_CATEGORIES: an income category, a plain expense category
\* and two savings-goal categories
categories ==
  << [id |-> "salary",         type |-> "income",  isGoal |-> FALSE],
     [id |-> "groceries",      type |-> "expense", isGoal |-> FALSE],
     [id |-> "vacation",       type |-> "expense", isGoal |-> TRUE],
     [id |-> "emergency-fund", type |-> "expense", isGoal |-> TRUE] >>

CategoryIds == {categories[i].id : i \in 1..Len(categories)}

\* an optional field: <<>> when it is not set (undefined), <<v>> when it is v
undefined == <<>>

\* the quotient a / b where it is a whole number (the goal ledgers below are
\* chosen so that every division the engine makes on them is exact)
ExactDiv(a, b) == CHOOSE q \in -(Abs(a))..Abs(a) : q * b = a

\* ceil(a / b) for b > 0
CeilDiv(a, b) == CHOOSE q \in -(Abs(a))..Abs(a) : q * b >= a /\ (q - 1) * b < a

----------------------------------------------------------------------------
\* BudgetEngine: utility methods.  d is the ledger (this.data).

\* a Budget record of (categoryId, month)
IsBudgetOf(b, categoryId, month) == b.categoryId = categoryId /\ b.month = month

\* this.data.budgets.filter(b => b.month === month)
budgetsOfMonth(d, month) == SelectSeq(d.budgets, LAMBDA b : b.month = month)

getMonthlyIncome(d, month) ==
  LET ts == SelectSeq(d.transactions,
                      LAMBDA t : startsWith(t.date, month) /\ t.type = "income")
  IN  SeqSum([i \in 1..Len(ts) |-> ts[i].amount])

getCategoryActivity(d, categoryId, month) ==
  LET ts == SelectSeq(d.transactions,
                      LAMBDA t : startsWith(t.date, month) /\ t.categoryId = categoryId)
  IN  SeqSum([i \in 1..Len(ts) |->
                IF ts[i].type = "expense" THEN -(ts[i].amount) ELSE ts[i].amount])

\* Available = Previous Available + Assigned + Activity, the previous available
\* being the available field stored in the previous month's Budget record
calculateCategoryAvailable(d, categoryId, month) ==
  LET bi == FindIndex(d.budgets, LAMBDA b : IsBudgetOf(b, categoryId, month))
      previousMonth == getPreviousMonth(month)
      pi == FindIndex(d.budgets, LAMBDA b : IsBudgetOf(b, categoryId, previousMonth))
      assigned == IF bi = 0 THEN 0 ELSE d.budgets[bi].assigned
      activity == getCategoryActivity(d, categoryId, month)
      previousAvailable == IF pi = 0 THEN 0 ELSE d.budgets[pi].available
  IN  previousAvailable + assigned + activity

calculateOverspending(d, month) ==
  LET bs == budgetsOfMonth(d, month)
  IN  SeqSum([i \in 1..Len(bs) |->
                Max(0, -(calculateCategoryAvailable(d, bs[i].categoryId, month)))])

getOverspentCategories(d, month) ==
  LET bs == SelectSeq(budgetsOfMonth(d, month),
                      LAMBDA b : calculateCategoryAvailable(d, b.categoryId, month) < 0)
  IN  [i \in 1..Len(bs) |-> bs[i].categoryId]

----------------------------------------------------------------------------
\* BudgetEngine: envelope budgeting core

calculateAvailableToBudget(d, month) ==
  LET monthlyIncome == getMonthlyIncome(d, month)
      previousMonth == getPreviousMonth(month)
      previousMonthBudgets == budgetsOfMonth(d, previousMonth)
      previousMonthAssigned ==
        SeqSum([i \in 1..Len(previousMonthBudgets) |-> previousMonthBudgets[i].assigned])
      previousMonthIncome == getMonthlyIncome(d, previousMonth)
      previousUnassigned == Max(0, previousMonthIncome - previousMonthAssigned)
      previousOverspending == calculateOverspending(d, previousMonth)
  IN  monthlyIncome + previousUnassigned - previousOverspending

\* a slip: assigned is summed over the Budget records of every month
getMonthlyBudgetSummaryOfAllMonths(d, month) ==
  LET totalAssigned == SeqSum([i \in 1..Len(d.budgets) |-> d.budgets[i].assigned])
      availableToBudget == calculateAvailableToBudget(d, month)
      toBeBudgeted == availableToBudget - totalAssigned
  IN  [availableToBudget |-> availableToBudget,
       totalAssigned     |-> totalAssigned,
       toBeBudgeted      |-> toBeBudgeted,
       isFullyAssigned   |-> (toBeBudgeted = 0),
       isOverAssigned    |-> (toBeBudgeted < 0)]

getMonthlyBudgetSummary(d, month) ==
  LET budgets == budgetsOfMonth(d, month)
      totalAssigned == SeqSum([i \in 1..Len(budgets) |-> budgets[i].assigned])
      availableToBudget == calculateAvailableToBudget(d, month)
      toBeBudgeted == availableToBudget - totalAssigned
  IN  [availableToBudget |-> availableToBudget,
       totalAssigned     |-> totalAssigned,
       toBeBudgeted      |-> toBeBudgeted,
       isFullyAssigned   |-> (toBeBudgeted = 0),
       isOverAssigned    |-> (toBeBudgeted < 0)]

\* a slip: the existing record's assigned is overwritten instead of added to
assignExistingOverwrite(d, i, categoryId, month, amount) ==
  LET d1 == [d EXCEPT !.budgets[i].assigned = amount]
  IN  [d1 EXCEPT !.budgets[i].available = calculateCategoryAvailable(d1, categoryId, month)]

\* a slip: the amount is added to every record of the category, whatever its
\* month
assignExistingEveryMonth(d, i, categoryId, month, amount) ==
  LET d1 == [d EXCEPT !.budgets =
               [k \in 1..Len(d.budgets) |->
                  IF d.budgets[k].categoryId = categoryId
                  THEN [d.budgets[k] EXCEPT !.assigned = @ + amount]
                  ELSE d.budgets[k]]]
  IN  [d1 EXCEPT !.budgets[i].available = calculateCategoryAvailable(d1, categoryId, month)]

\* assignMoney on an existing record (index i): add to assigned in place, then
\* store the recomputed available
assignExisting(d, i, categoryId, month, amount) ==
  LET d1 == [d EXCEPT !.budgets[i].assigned = @ + amount]
  IN  [d1 EXCEPT !.budgets[i].available = calculateCategoryAvailable(d1, categoryId, month)]

\* assignMoney when the record is absent: the new record's available is computed
\* by calculateCategoryAvailable before the record is pushed
assignNew(d, categoryId, month, amount) ==
  LET newBudget == [categoryId |-> categoryId,
                    month      |-> month,
                    assigned   |-> amount,
                    activity   |-> getCategoryActivity(d, categoryId, month),
                    available  |-> calculateCategoryAvailable(d, categoryId, month)]
  IN  [d EXCEPT !.budgets = Append(@, newBudget)]

\* the ledger after assignMoney, and the index in data.budgets of the Budget
\* record it returns (the record is returned by reference)
assignMoney(d, categoryId, month, amount) ==
  LET i == FindIndex(d.budgets, LAMBDA b : IsBudgetOf(b, categoryId, month))
  IN  IF i # 0
      THEN [data |-> assignExisting(d, i, categoryId, month, amount), ret |-> i]
      ELSE [data |-> assignNew(d, categoryId, month, amount), ret |-> Len(d.budgets) + 1]

----------------------------------------------------------------------------
\* BudgetEngine: goals

\* year and month of new Date(targetDate) for a "YYYY-MM-DD" date
dateMonth(date) == <<date[1], date[2]>>

\* truthiness of an optional number: set and not 0
truthy(x) == x # undefined /\ x[1] # 0

\* the months from the month of new Date() to the month of targetDate, not
\* floored
monthsUntilSigned(targetDate) ==
  (dateMonth(targetDate)[1] - now[1]) * 12 + (dateMonth(targetDate)[2] - now[2])

\* Math.max(0, (targetDate.getFullYear() - now.getFullYear()) * 12
\*             + (targetDate.getMonth() - now.getMonth()))
monthsUntil(targetDate) ==
  Max(0, (dateMonth(targetDate)[1] - now[1]) * 12 + (dateMonth(targetDate)[2] - now[2]))

\* the monthly_funding branch taken for a goal of any type
isMonthlyFundedAnyType(goal) == truthy(goal.monthlyFunding)

\* goal.type === 'monthly_funding' && goal.monthlyFunding
isMonthlyFunded(goal) == goal.type = "monthly_funding" /\ truthy(goal.monthlyFunding)

\* calculateGoalProgress once the goal is found; progress is kept as the exact
\* fraction num / den (a percentage)
goalProgress(goal) ==
  LET currentAmount == goal.currentAmount
      progress == IF goal.targetAmount > 0
                  THEN [num |-> currentAmount * 100, den |-> goal.targetAmount]
                  ELSE [num |-> 0, den |-> 1]
      isTargetDate == goal.type = "target_date" /\ goal.targetDate # undefined
      isMonthly == ~isTargetDate /\ isMonthlyFunded(goal)
      dateMonths == IF isTargetDate THEN monthsUntil(goal.targetDate[1]) ELSE 0
      recommendedMonthly ==
        IF isTargetDate
        THEN IF dateMonths > 0
             THEN ExactDiv(goal.targetAmount - currentAmount, dateMonths)
             ELSE 0
        ELSE IF isMonthly THEN goal.monthlyFunding[1] ELSE 0
      monthsRemaining ==
        IF isTargetDate THEN dateMonths
        ELSE IF isMonthly /\ recommendedMonthly > 0
             THEN CeilDiv(goal.targetAmount - currentAmount, recommendedMonthly)
             ELSE 0
      onTrack ==
        IF isTargetDate /\ dateMonths > 0
        THEN IF truthy(goal.monthlyFunding)
             THEN goal.monthlyFunding[1] >= recommendedMonthly
             ELSE FALSE
        ELSE TRUE
  IN  [error              |-> "none",
       progress           |-> progress,
       monthsRemaining    |-> monthsRemaining,
       onTrack            |-> onTrack,
       recommendedMonthly |-> recommendedMonthly]

\* a slip: the defaults are returned for a goal that is not found
calculateGoalProgressOrDefaults(d, goalId) ==
  IF FindIndex(d.goals, LAMBDA g : g.id = goalId) = 0
  THEN [error |-> "none", progress |-> [num |-> 0, den |-> 1], monthsRemaining |-> 0,
        onTrack |-> TRUE, recommendedMonthly |-> 0]
  ELSE goalProgress(d.goals[FindIndex(d.goals, LAMBDA g : g.id = goalId)])

\* throw new Error('Goal not found') is the result [error |-> "Goal not found"]:
\* nothing else is returned
calculateGoalProgress(d, goalId) ==
  IF FindIndex(d.goals, LAMBDA g : g.id = goalId) = 0
  THEN [error |-> "Goal not found"]
  ELSE goalProgress(d.goals[FindIndex(d.goals, LAMBDA g : g.id = goalId)])

----------------------------------------------------------------------------
\* BudgetEngine: auto-assignment.  The running state st of one call holds
\*   data           the ledger as changed so far
\*   remainingMoney the funds left
\*   assigned       the returned list: indices into data.budgets of the records
\*                  pushed onto it (the records are returned by reference)
\*   log            per entry of assigned: the pass, the category and toAssign

\* one assignment of toAssign to categoryId made by pass p
autoAssignStep(st, p, categoryId, month, toAssign) ==
  LET r == assignMoney(st.data, categoryId, month, toAssign)
  IN  [data           |-> r.data,
       remainingMoney |-> st.remainingMoney - toAssign,
       assigned       |-> Append(st.assigned, r.ret),
       log            |-> Append(st.log, [pass |-> p, categoryId |-> categoryId,
                                          toAssign |-> toAssign])]

\* a slip: pass 1 assigns what is needed without capping it by the remaining funds
RECURSIVE coverOverspentUncapped(_, _, _)
coverOverspentUncapped(st, overspentCategories, month) ==
  IF overspentCategories = <<>> \/ st.remainingMoney <= 0
  THEN st
  ELSE LET categoryId == Head(overspentCategories)
           needed == Abs(calculateCategoryAvailable(st.data, categoryId, month))
       IN  coverOverspentUncapped(autoAssignStep(st, 1, categoryId, month, needed),
                                  Tail(overspentCategories), month)

\* First priority: cover overspent categories
RECURSIVE coverOverspent(_, _, _)
coverOverspent(st, overspentCategories, month) ==
  IF overspentCategories = <<>> \/ st.remainingMoney <= 0
  THEN st
  ELSE LET categoryId == Head(overspentCategories)
           needed == Abs(calculateCategoryAvailable(st.data, categoryId, month))
           toAssign == Min(needed, st.remainingMoney)
       IN  coverOverspent(autoAssignStep(st, 1, categoryId, month, toAssign),
                          Tail(overspentCategories), month)

\* a slip: the goal lookup leaves out the isActive test
goalTopUpAnyGoal(st, categoryId, month) ==
  LET ci == FindIndex(categories, LAMBDA c : c.id = categoryId)
      gi == FindIndex(st.data.goals, LAMBDA g : g.categoryId = categoryId)
  IN  IF ci = 0 \/ ~categories[ci].isGoal \/ gi = 0
      THEN 0
      ELSE LET recommendedMonthly ==
                 calculateGoalProgress(st.data, st.data.goals[gi].id).recommendedMonthly
               bi == FindIndex(st.data.budgets, LAMBDA b : IsBudgetOf(b, categoryId, month))
               currentAssigned == IF bi = 0 THEN 0 ELSE st.data.budgets[bi].assigned
           IN  Min(Max(0, recommendedMonthly - currentAssigned), st.remainingMoney)

\* the amount pass 2 gives to categoryId: 0 when it is no goal category with an
\* active goal
goalTopUp(st, categoryId, month) ==
  LET ci == FindIndex(categories, LAMBDA c : c.id = categoryId)
      gi == FindIndex(st.data.goals, LAMBDA g : g.categoryId = categoryId /\ g.isActive)
  IN  IF ci = 0 \/ ~categories[ci].isGoal \/ gi = 0
      THEN 0
      ELSE LET recommendedMonthly ==
                 calculateGoalProgress(st.data, st.data.goals[gi].id).recommendedMonthly
               bi == FindIndex(st.data.budgets, LAMBDA b : IsBudgetOf(b, categoryId, month))
               currentAssigned == IF bi = 0 THEN 0 ELSE st.data.budgets[bi].assigned
           IN  Min(Max(0, recommendedMonthly - currentAssigned), st.remainingMoney)

\* a slip: pass 2 assigns without pushing the record onto the returned list
RECURSIVE fundGoalsUnlisted(_, _, _)
fundGoalsUnlisted(st, priorities, month) ==
  IF priorities = <<>> \/ st.remainingMoney <= 0
  THEN st
  ELSE LET categoryId == Head(priorities)
           toAssign == goalTopUp(st, categoryId, month)
           next == autoAssignStep(st, 2, categoryId, month, toAssign)
       IN  fundGoalsUnlisted(IF toAssign > 0
                             THEN [next EXCEPT !.assigned = st.assigned, !.log = st.log]
                             ELSE st,
                             Tail(priorities), month)

\* Second priority: fund goals by priority
RECURSIVE fundGoals(_, _, _)
fundGoals(st, priorities, month) ==
  IF priorities = <<>> \/ st.remainingMoney <= 0
  THEN st
  ELSE LET categoryId == Head(priorities)
           toAssign == goalTopUp(st, categoryId, month)
       IN  fundGoals(IF toAssign > 0
                     THEN autoAssignStep(st, 2, categoryId, month, toAssign)
                     ELSE st,
                     Tail(priorities), month)

\* a slip: the summary's availableToBudget is read instead of its toBeBudgeted
autoAssignMoneyOfAvailable(d, month, priorities) ==
  LET toBeBudgeted == getMonthlyBudgetSummary(d, month).availableToBudget
      st0 == [data |-> d, remainingMoney |-> toBeBudgeted, assigned |-> <<>>, log |-> <<>>]
  IN  IF toBeBudgeted <= 0
      THEN st0
      ELSE fundGoals(coverOverspent(st0, getOverspentCategories(d, month), month),
                     priorities, month)

autoAssignMoney(d, month, priorities) ==
  LET toBeBudgeted == getMonthlyBudgetSummary(d, month).toBeBudgeted
      st0 == [data |-> d, remainingMoney |-> toBeBudgeted, assigned |-> <<>>, log |-> <<>>]
  IN  IF toBeBudgeted <= 0
      THEN st0
      ELSE fundGoals(coverOverspent(st0, getOverspentCategories(d, month), month),
                     priorities, month)

----------------------------------------------------------------------------
\* Numbers of the debt calculations.  The engine computes them in JavaScript
\* numbers; the model computes them exactly, as fractions of natural numbers
\* of any size, plus the two values Infinity and NaN.
\*
\* A natural number is the sequence of its digits in base Base, least
\* significant digit first, without leading zeros (0 is the empty sequence).

Base == 100 * 100

RECURSIVE BigOfNat(_)
BigOfNat(n) == IF n = 0 THEN <<>> ELSE <<n % Base>> \o BigOfNat(n \div Base)

\* The digit loops below walk the positions lo..hi by halves, so that the
\* depth of the recursion stays logarithmic in the number of digits; st is
\* the loop's state: the digits written so far and the carry.  Each loop reads
\* the carry on entry (it is never negative), so that the lower half is
\* computed before the upper half is entered.

\* a without the zeros at its most significant end
BigStrip(a) ==
  IF a = <<>> \/ a[Len(a)] # 0 THEN a
  ELSE IF \A i \in 1..Len(a) : a[i] = 0 THEN <<>>
  ELSE SubSeq(a, 1, CHOOSE i \in 1..Len(a) :
                      a[i] # 0 /\ \A j \in (i + 1)..Len(a) : a[j] = 0)

\* a times k (0 <= k <= 200000)
RECURSIVE BigMulSmallRange(_, _, _, _, _)
BigMulSmallRange(a, k, lo, hi, st) ==
  IF lo > hi \/ st.carry < 0 THEN st
  ELSE IF lo = hi
  THEN LET v == a[lo] * k + st.carry
       IN  [acc |-> Append(st.acc, v % Base), carry |-> v \div Base]
  ELSE LET mid == (lo + hi) \div 2
       IN  BigMulSmallRange(a, k, mid + 1, hi, BigMulSmallRange(a, k, lo, mid, st))

\* the digits a loop has written, followed by the carry it ended with
BigOfLoop(st) == st.acc \o BigOfNat(st.carry)

BigMulSmall(a, k) ==
  IF k = 0 \/ a = <<>> THEN <<>>
  ELSE BigOfLoop(BigMulSmallRange(a, k, 1, Len(a), [acc |-> <<>>, carry |-> 0]))

RECURSIVE BigAddRange(_, _, _, _, _)
BigAddRange(a, b, lo, hi, st) ==
  IF lo > hi \/ st.carry < 0 THEN st
  ELSE IF lo = hi
  THEN LET v == (IF lo <= Len(a) THEN a[lo] ELSE 0)
                + (IF lo <= Len(b) THEN b[lo] ELSE 0) + st.carry
       IN  [acc |-> Append(st.acc, v % Base), carry |-> v \div Base]
  ELSE LET mid == (lo + hi) \div 2
       IN  BigAddRange(a, b, mid + 1, hi, BigAddRange(a, b, lo, mid, st))

BigAdd(a, b) ==
  IF a = <<>> THEN b
  ELSE IF b = <<>> THEN a
  ELSE BigOfLoop(BigAddRange(a, b, 1, Max(Len(a), Len(b)), [acc |-> <<>>, carry |-> 0]))

\* a - b for a >= b; the carry is the borrow
RECURSIVE BigSubRange(_, _, _, _, _)
BigSubRange(a, b, lo, hi, st) ==
  IF lo > hi \/ st.carry < 0 THEN st
  ELSE IF lo = hi
  THEN LET v == a[lo] - (IF lo <= Len(b) THEN b[lo] ELSE 0) - st.carry
       IN  IF v < 0
           THEN [acc |-> Append(st.acc, v + Base), carry |-> 1]
           ELSE [acc |-> Append(st.acc, v), carry |-> 0]
  ELSE LET mid == (lo + hi) \div 2
       IN  BigSubRange(a, b, mid + 1, hi, BigSubRange(a, b, lo, mid, st))

BigSub(a, b) ==
  IF b = <<>> THEN a
  ELSE BigStrip(BigSubRange(a, b, 1, Len(a), [acc |-> <<>>, carry |-> 0]).acc)

\* -1, 0 or 1 as a < b, a = b or a > b, for a and b of the same length, read
\* at the positions lo..hi
RECURSIVE BigCmpRange(_, _, _, _)
BigCmpRange(a, b, lo, hi) ==
  IF lo > hi THEN 0
  ELSE IF lo = hi
  THEN (IF a[lo] < b[lo] THEN -1 ELSE IF a[lo] > b[lo] THEN 1 ELSE 0)
  ELSE LET mid == (lo + hi) \div 2
       IN  IF SubSeq(a, mid + 1, hi) = SubSeq(b, mid + 1, hi)
           THEN BigCmpRange(a, b, lo, mid)
           ELSE BigCmpRange(a, b, mid + 1, hi)

\* -1, 0 or 1 as a < b, a = b or a > b
BigCmp(a, b) ==
  IF Len(a) # Len(b) THEN (IF Len(a) < Len(b) THEN -1 ELSE 1)
  ELSE BigCmpRange(a, b, 1, Len(a))

\* a times Base^n
BigShift(a, n) == IF a = <<>> THEN a ELSE [i \in 1..n |-> 0] \o a

\* a times the digits lo..hi of b, each at its place
RECURSIVE BigMulRange(_, _, _, _)
BigMulRange(a, b, lo, hi) ==
  IF lo > hi THEN <<>>
  ELSE IF lo = hi
  THEN BigShift(BigMulSmall(a, b[lo]), lo - 1)
  ELSE BigAdd(BigMulRange(a, b, lo, (lo + hi) \div 2),
              BigMulRange(a, b, (lo + hi) \div 2 + 1, hi))

BigMul(a, b) ==
  IF Len(a) >= Len(b)
  THEN BigMulRange(a, b, 1, Len(b))
  ELSE BigMulRange(b, a, 1, Len(a))

\* a power of two q with q * b > a, from q on (b > 0)
RECURSIVE BigQuotientAbove(_, _, _)
BigQuotientAbove(a, b, q) ==
  IF BigCmp(BigMul(b, BigOfNat(q)), a) > 0 THEN q ELSE BigQuotientAbove(a, b, 2 * q)

\* the quotient of a by b rounded down, known to be at least lo and below hi
RECURSIVE BigQuotientBetween(_, _, _, _)
BigQuotientBetween(a, b, lo, hi) ==
  IF hi - lo <= 1 THEN lo
  ELSE LET mid == (lo + hi) \div 2
       IN  IF BigCmp(BigMul(b, BigOfNat(mid)), a) <= 0
           THEN BigQuotientBetween(a, b, mid, hi)
           ELSE BigQuotientBetween(a, b, lo, mid)

\* the quotient of a by b rounded down, as an integer (b > 0)
BigQuotient(a, b) == BigQuotientBetween(a, b, 0, BigQuotientAbove(a, b, 1))

\* A fraction: sign, numerator and denominator (not in lowest terms)
Rat(neg, num, den) == [neg |-> neg /\ num # <<>>, num |-> num, den |-> den]

RatOfInt(n) == Rat(n < 0, BigOfNat(IF n < 0 THEN -n ELSE n), <<1>>)

\* the fraction n / d of two integers, d > 0
RatOf(n, d) == Rat(n < 0, BigOfNat(IF n < 0 THEN -n ELSE n), BigOfNat(d))

RatZero == RatOfInt(0)

RatNeg(x) == Rat(~x.neg, x.num, x.den)

\* -1, 0 or 1: the sign of x
RatSign(x) == IF x.num = <<>> THEN 0 ELSE IF x.neg THEN -1 ELSE 1

\* the fraction over den whose numerator is a with the sign aneg plus b
\* with the sign bneg
RatOfSum(aneg, a, bneg, b, den) ==
  IF aneg = bneg THEN Rat(aneg, BigAdd(a, b), den)
  ELSE IF BigCmp(a, b) >= 0 THEN Rat(aneg, BigSub(a, b), den)
  ELSE Rat(bneg, BigSub(b, a), den)

RatAdd(x, y) ==
  IF x.num = <<>> THEN y
  ELSE IF y.num = <<>> THEN x
  ELSE IF x.den = y.den THEN RatOfSum(x.neg, x.num, y.neg, y.num, x.den)
  ELSE RatOfSum(x.neg, BigMul(x.num, y.den), y.neg, BigMul(y.num, x.den),
                BigMul(x.den, y.den))

RatSub(x, y) == RatAdd(x, RatNeg(y))

RatMul(x, y) == Rat(x.neg # y.neg, BigMul(x.num, y.num), BigMul(x.den, y.den))

\* x / y for y # 0
RatDiv(x, y) == Rat(x.neg # y.neg, BigMul(x.num, y.den), BigMul(x.den, y.num))

\* -1, 0 or 1 as x < y, x = y or x > y
RatCmp(x, y) == RatSign(RatSub(x, y))

RatEq(x, y) == RatCmp(x, y) = 0

RatLeq(x, y) == RatCmp(x, y) <= 0

RatLess(x, y) == RatCmp(x, y) < 0

RatMax(x, y) == IF RatLess(x, y) THEN y ELSE x

\* Math.ceil of a fraction x >= 0, as an integer
CeilOfQuotient(x, q) ==
  IF BigCmp(BigMul(x.den, BigOfNat(q)), x.num) = 0 THEN q ELSE q + 1

RatCeil(x) == CeilOfQuotient(x, BigQuotient(x.num, x.den))

\* x to the power n, n >= 0
RatSquare(x) == RatMul(x, x)

RECURSIVE RatPow(_, _)
RatPow(x, n) ==
  IF n = 0 THEN RatOfInt(1)
  ELSE IF n = 1 THEN x
  ELSE IF n % 2 = 0 THEN RatSquare(RatPow(x, n \div 2))
  ELSE RatMul(RatSquare(RatPow(x, n \div 2)), x)

\* Math.ceil(-Math.log(x) / Math.log(b)) for 0 < x <= 1 < b is the least m
\* such that x * b^m >= 1.  The loop multiplies by b until the product reaches
\* 1, walking the months lo..hi by halves; st is the product and the months
\* counted so far.
RECURSIVE CeilLogRange(_, _, _, _)
CeilLogRange(b, lo, hi, st) ==
  IF BigCmp(st.y.num, st.y.den) >= 0 \/ lo > hi THEN st
  ELSE IF lo = hi
  THEN [y |-> RatMul(st.y, b), m |-> st.m + 1]
  ELSE LET mid == (lo + hi) \div 2
       IN  CeilLogRange(b, mid + 1, hi, CeilLogRange(b, lo, mid, st))

\* the months are searched in spans of span months, one span after the other
RECURSIVE CeilLogFrom(_, _, _)
CeilLogFrom(b, span, st) ==
  IF BigCmp(st.y.num, st.y.den) >= 0 THEN st.m
  ELSE CeilLogFrom(b, 2 * span, CeilLogRange(b, 1, span, st))

CeilLog(x, b) == CeilLogFrom(b, 16, [y |-> x, m |-> 0])

\* the JavaScript numbers that are no fractions
Infinity == [special |-> "Infinity"]

NaN == [special |-> "NaN"]

IsFinite(x) == "num" \in DOMAIN x

NegInfinity == [special |-> "-Infinity"]

IsNaN(x) == ~IsFinite(x) /\ x.special = "NaN"

\* x + y of two JavaScript numbers
NumAdd(x, y) ==
  IF IsFinite(x) /\ IsFinite(y) THEN RatAdd(x, y)
  ELSE IF IsNaN(x) \/ IsNaN(y) THEN NaN
  ELSE IF IsFinite(x) THEN y
  ELSE IF IsFinite(y) \/ x = y THEN x
  ELSE NaN

\* -x of a JavaScript number
NumNeg(x) ==
  IF IsFinite(x) THEN RatNeg(x)
  ELSE IF IsNaN(x) THEN NaN
  ELSE IF x = Infinity THEN NegInfinity ELSE Infinity

\* x - y of two JavaScript numbers
NumSub(x, y) == NumAdd(x, NumNeg(y))

\* Math.max(x, y) of two JavaScript numbers
NumMax(x, y) ==
  IF IsFinite(x) /\ IsFinite(y) THEN RatMax(x, y)
  ELSE IF IsNaN(x) \/ IsNaN(y) THEN NaN
  ELSE IF x = Infinity \/ y = Infinity THEN Infinity
  ELSE IF IsFinite(x) THEN x ELSE y

----------------------------------------------------------------------------
\* Debt management (budget-engine.ts).  An account is a record id, type,
\* balance, interestRate; the optional interestRate is undefined or <<rate>>.
\* Account.name and the other descriptive fields are left out.  Amounts are
\* the exact fractions above where the code computes with floating point.

getDebtAccounts(d) ==
  SelectSeq(d.accounts,
            LAMBDA account : account.type = "credit_card" \/ account.type = "loan")

\* the default of calculateLoanPayment's parameter years
years == 10

\* balance * (monthlyRate * pow) / (pow - 1), pow being
\* Math.pow(1 + monthlyRate, numPayments)
amortizedPayment(balance, monthlyRate, pow) ==
  RatDiv(RatMul(balance, RatMul(monthlyRate, pow)), RatSub(pow, RatOfInt(1)))

calculateLoanPayment(balance, annualRate) ==
  LET monthlyRate == RatDiv(RatDiv(RatOfInt(annualRate), RatOfInt(100)), RatOfInt(12))
      numPayments == years * 12
  IN  IF RatSign(monthlyRate) = 0
      THEN RatDiv(balance, RatOfInt(numPayments))
      ELSE amortizedPayment(balance, monthlyRate,
                            RatPow(RatAdd(RatOfInt(1), monthlyRate), numPayments))

\* the result of calculatePayoffTime once months is known
payoffAfter(balance, payment, months) ==
  [months |-> RatOfInt(months),
   totalInterest |->
     RatMax(RatZero, RatSub(RatMul(payment, RatOfInt(months)), balance))]

\* Math.ceil(-Math.log(x) / Math.log(growth)) and what follows it, for
\* x = 1 - balance * monthlyRate / payment and growth = 1 + monthlyRate > 1:
\* Math.log of a negative number is NaN, and NaN goes through Math.ceil, the
\* arithmetic and Math.max; Math.log(0) is -Infinity
payoffByLogarithm(balance, payment, growth, x) ==
  IF RatSign(x) < 0 THEN [months |-> NaN, totalInterest |-> NaN]
  ELSE IF RatSign(x) = 0 THEN [months |-> Infinity, totalInterest |-> Infinity]
  ELSE payoffAfter(balance, payment, CeilLog(x, growth))

\* calculatePayoffTime charging interest on a debt without interest
calculatePayoffTimeWithInterest(balance, annualRate, payment) ==
  IF RatSign(payment) <= 0 THEN [months |-> Infinity, totalInterest |-> RatZero]
  ELSE IF annualRate = 0
  THEN payoffAfter(balance, payment, RatCeil(RatDiv(balance, payment)))
  ELSE payoffByLogarithm(balance, payment, RatOf(1200 + annualRate, 1200),
         RatSub(RatOfInt(1), RatDiv(RatMul(balance, RatOf(annualRate, 1200)), payment)))

\* balance >= 0 and annualRate >= 0
calculatePayoffTime(balance, annualRate, payment) ==
  LET monthlyRate == RatDiv(RatDiv(RatOfInt(annualRate), RatOfInt(100)), RatOfInt(12))
  IN  IF RatSign(payment) <= 0 THEN [months |-> Infinity, totalInterest |-> RatZero]
      ELSE IF RatSign(monthlyRate) = 0
      THEN [months |-> RatOfInt(RatCeil(RatDiv(balance, payment))),
            totalInterest |-> RatZero]
      ELSE payoffByLogarithm(balance, payment, RatAdd(RatOfInt(1), monthlyRate),
             RatSub(RatOfInt(1), RatDiv(RatMul(balance, monthlyRate), payment)))

\* the minimumPayment of a plan entry
minimumPaymentOf(debt) ==
  IF debt.type = "credit_card"
  THEN RatMax(RatOfInt(25), RatMul(RatOfInt(Abs(debt.balance)), RatOf(2, 100)))
  ELSE IF truthy(debt.interestRate)
  THEN calculateLoanPayment(RatOfInt(Abs(debt.balance)), debt.interestRate[1])
  ELSE RatZero

\* the entry debtAccounts.map builds for an account
planEntry(debt) ==
  [accountId |-> debt.id,
   balance |-> Abs(debt.balance),
   interestRate |-> IF truthy(debt.interestRate) THEN debt.interestRate[1] ELSE 0,
   minimumPayment |-> minimumPaymentOf(debt),
   payoffOrder |-> 0,
   monthsToPayoff |-> RatZero,
   totalInterest |-> RatZero]

\* the avalanche comparator, whatever the strategy
sortsBeforeByRate(plan, strategy, i, j) ==
  plan[j].interestRate - plan[i].interestRate < 0

\* the comparator of plan.sort is negative for (plan[i], plan[j])
sortsBefore(plan, strategy, i, j) ==
  IF strategy = "avalanche"
  THEN plan[j].interestRate - plan[i].interestRate < 0
  ELSE plan[i].balance - plan[j].balance < 0

\* plan.sort: Array.prototype.sort is stable, entries the comparator holds
\* equal keep their order
sortPlan(plan, strategy) ==
  LET position(i) ==
        1 + Cardinality({j \in DOMAIN plan :
                           \/ sortsBefore(plan, strategy, j, i)
                           \/ ~sortsBefore(plan, strategy, i, j) /\ j < i})
  IN  [k \in DOMAIN plan |-> plan[CHOOSE i \in DOMAIN plan : position(i) = k]]

\* the payment calculatePayoffTime is called with for the entry at index
paymentOfEveryDebt(debt, index, extraPayment) ==
  RatAdd(debt.minimumPayment, RatOfInt(extraPayment))

paymentOf(debt, index, extraPayment) ==
  RatAdd(debt.minimumPayment, RatOfInt(IF index = 0 THEN extraPayment ELSE 0))

\* the body of plan.forEach for the entry at index, time being the result of
\* calculatePayoffTime
withPayoffTime(debt, index, time) ==
  [debt EXCEPT !.payoffOrder = index + 1,
               !.monthsToPayoff = time.months,
               !.totalInterest = time.totalInterest]

\* plan.forEach over the sorted plan
withTimelines(plan, extraPayment) ==
  [k \in DOMAIN plan |->
     withPayoffTime(plan[k], k - 1,
       calculatePayoffTime(RatOfInt(plan[k].balance), plan[k].interestRate,
                           paymentOf(plan[k], k - 1, extraPayment)))]

\* the list debtAccounts.map returns
mapDebtAccounts(debtAccounts) ==
  [i \in DOMAIN debtAccounts |-> planEntry(debtAccounts[i])]

calculateDebtPayoffPlan(d, extraPayment, strategy) ==
  withTimelines(sortPlan(mapDebtAccounts(getDebtAccounts(d)), strategy), extraPayment)

----------------------------------------------------------------------------
\* Net worth (budget-engine.ts, NET WORTH & ANALYTICS).  accountBreakdown is
\* keyed by the account's name, which the model takes to be its id.

\* the body of accounts.forEach for one account, st being the running
\* assets, liabilities and accountBreakdown
netWorthStep(st, account) ==
  [assets |-> IF account.balance >= 0 THEN st.assets + account.balance ELSE st.assets,
   liabilities |-> IF account.balance >= 0 THEN st.liabilities
                   ELSE st.liabilities + Abs(account.balance),
   accountBreakdown |->
     [n \in DOMAIN st.accountBreakdown \cup {account.id} |->
        IF n = account.id THEN account.balance ELSE st.accountBreakdown[n]]]

RECURSIVE netWorthFrom(_, _)
netWorthFrom(st, accounts) ==
  IF accounts = <<>> THEN st
  ELSE netWorthFrom(netWorthStep(st, Head(accounts)), Tail(accounts))

\* the return statement of calculateNetWorth
netWorthOf(st) ==
  [assets |-> st.assets, liabilities |-> st.liabilities,
   netWorth |-> st.assets - st.liabilities, accountBreakdown |-> st.accountBreakdown]

\* calculateNetWorth over the active accounts only
calculateNetWorthOfActive(d) ==
  netWorthOf(netWorthFrom([assets |-> 0, liabilities |-> 0, accountBreakdown |-> <<>>],
                          SelectSeq(d.accounts, LAMBDA account : account.isActive)))

calculateNetWorth(d) ==
  netWorthOf(netWorthFrom([assets |-> 0, liabilities |-> 0, accountBreakdown |-> <<>>],
                          d.accounts))

----------------------------------------------------------------------------
\* Inputs

Amounts == 1..MaxAmount

\* amounts given to assignMoney: positive to assign, negative to unassign, and 0
AssignAmounts == (-MaxAssign)..MaxAssign

\* every transaction is dated on the 15th
Transaction(type, categoryId, amount, month) ==
  [type |-> type, categoryId |-> categoryId, amount |-> amount,
   date |-> <<month[1], month[2], 15>>]

NewTransactions ==
  {Transaction("income", "salary", a, m) : a \in Amounts, m \in Months}
  \cup {Transaction("expense", c, a, m) :
          c \in {"groceries", "vacation"}, a \in Amounts, m \in Months}

\* the envelopes the caller assigns money to
AssignCategoryIds == {"groceries", "vacation"}

Goal(id, categoryId, type, targetAmount, targetDate, monthlyFunding, currentAmount, isActive) ==
  [id |-> id, categoryId |-> categoryId, type |-> type, targetAmount |-> targetAmount,
   targetDate |-> targetDate, monthlyFunding |-> monthlyFunding,
   currentAmount |-> currentAmount, isActive |-> isActive]

\* the month new Date() falls in: the second month of the ledger
Today == MonthAt(2)

\* a date two months after Today
InTwoMonths == LET m == getNextMonth(getNextMonth(Today)) IN <<m[1], m[2], 15>>

\* goal collections of the ledgers the engine is constructed with
NoGoals == <<>>

OneGoal ==
  << Goal("goal-1", "vacation", "monthly_funding", 6, undefined, <<2>>, 0, TRUE) >>

MixedGoals ==
  << Goal("goal-1", "vacation", "monthly_funding", 6, undefined, <<2>>, 0, FALSE),
     Goal("goal-2", "vacation", "target_date", 2, <<InTwoMonths>>, undefined, 0, TRUE),
     Goal("goal-3", "emergency-fund", "monthly_funding", 6, undefined, <<1>>, 2, TRUE) >>

BalanceGoals ==
  << Goal("goal-1", "vacation", "target_balance", 6, undefined, undefined, 1, TRUE),
     Goal("goal-2", "groceries", "monthly_funding", 6, undefined, <<2>>, 0, TRUE),
     Goal("goal-3", "emergency-fund", "monthly_funding", 6, undefined, <<2>>, 0, TRUE) >>

\* the ledger snapshots the engine is constructed with: no Budget record yet,
\* some transactions already entered
Ledger(transactions, goals) ==
  [budgets |-> <<>>, transactions |-> transactions, goals |-> goals]

InitialLedgers ==
  { Ledger(<<>>, NoGoals),
    Ledger(<<>>, MixedGoals),
    Ledger(<< Transaction("income", "salary", 2, MonthAt(2)) >>, OneGoal),
    Ledger(<< Transaction("expense", "groceries", 2, MonthAt(2)),
              Transaction("income", "salary", 1, MonthAt(2)) >>, BalanceGoals),
    Ledger(<< Transaction("expense", "groceries", 1, MonthAt(1)),
              Transaction("expense", "vacation", 1, MonthAt(2)),
              Transaction("income", "salary", 3, MonthAt(2)) >>, MixedGoals),
    Ledger(<< Transaction("income", "salary", 1, MonthAt(1)),
              Transaction("expense", "vacation", 2, MonthAt(1)) >>, OneGoal) }

\* settings.autoAssignPriority lists handed to autoAssignMoney
PriorityLists ==
  { <<>>,
    <<"vacation", "emergency-fund">>,
    <<"emergency-fund", "vacation">>,
    <<"vacation", "vacation">>,
    <<"groceries", "retirement", "emergency-fund">> }

\* settings.autoAssignPriority values the page is loaded with
UIPriorityLists == { <<>>, <<"vacation", "emergency-fund">> }

----------------------------------------------------------------------------
\* The engine and the caller that owns the ledger

NoCall == [op |-> "none"]

\* the engine driven directly: no page is rendered
NoPage == [view |-> "none"]

Init ==
  /\ data \in InitialLedgers
  /\ now = Today
  /\ call = NoCall
  /\ ops = 0
  /\ page = NoPage

\* the caller adds a transaction to the ledger
AddTransaction ==
  /\ ops < MaxOps
  /\ Len(data.transactions) < MaxTx
  /\ \E t \in NewTransactions :
       /\ data' = [data EXCEPT !.transactions = Append(@, t)]
       /\ call' = [op |-> "addTransaction", transaction |-> t]
  /\ ops' = ops + 1
  /\ UNCHANGED <<now, page>>

\* the ledger and the record of the call once assignMoney returned r
assignMoneyReturned(r, categoryId, month, amount) ==
  /\ data' = r.data
  /\ call' = [op |-> "assignMoney", categoryId |-> categoryId, month |-> month,
              amount |-> amount, pre |-> data.budgets, ret |-> r.ret]

\* engine.assignMoney(categoryId, month, amount)
AssignMoney ==
  /\ ops < MaxOps
  /\ \E categoryId \in AssignCategoryIds, month \in Months, amount \in AssignAmounts :
       assignMoneyReturned(assignMoney(data, categoryId, month, amount),
                           categoryId, month, amount)
  /\ ops' = ops + 1
  /\ UNCHANGED <<now, page>>

\* the ledger and the record of the call once autoAssignMoney returned r
autoAssignMoneyReturned(r, month, priorities) ==
  /\ data' = r.data
  /\ call' = [op |-> "autoAssignMoney", month |-> month, priorities |-> priorities,
              pre |-> data.budgets, ret |-> r.assigned, log |-> r.log]

\* engine.autoAssignMoney(month, priorities)
AutoAssignMoney ==
  /\ ops < MaxOps
  /\ \E month \in Months, priorities \in PriorityLists :
       autoAssignMoneyReturned(autoAssignMoney(data, month, priorities),
                               month, priorities)
  /\ ops' = ops + 1
  /\ UNCHANGED <<now, page>>

\* one render of the budget view for a month: the caller reads the month's
\* summary and every category's available
ReadMonth ==
  /\ ops < MaxOps
  /\ \E month \in Months :
       call' = [op |-> "read", month |-> month,
                summary |-> getMonthlyBudgetSummary(data, month),
                available |-> [c \in CategoryIds |->
                                 calculateCategoryAvailable(data, c, month)]]
  /\ ops' = ops + 1
  /\ UNCHANGED <<data, now, page>>

Next == AddTransaction \/ AssignMoney \/ AutoAssignMoney \/ ReadMonth

Spec == Init /\ [][Next]_vars

----------------------------------------------------------------------------
\* The page (BudgetTracker) and its EnvelopeBudget component.
\*
\* EnvelopeBudget constructs its engine once, when it mounts, from the data
\* prop of that render; the engine keeps that BudgetData object by reference.
\* Every save of the page builds a new BudgetData object, so after a save the
\* engine's data and the page's data are different objects that share Budget
\* records.  An element of the page's data.budgets array is therefore either
\* a reference to a record of the engine's array or a record of its own.

Ref(i) == [ref |-> i]

Val(b) == [val |-> b]

IsRef(x) == "ref" \in DOMAIN x

\* the Budget record an element of the page's array stands for
Deref(d, x) == IF IsRef(x) THEN d.budgets[x.ref] ELSE x.val

\* the page's data.budgets array; while no save replaced it, it is the very
\* array the engine pushes to
pageArray(d, pg) ==
  IF pg.sameArray THEN [i \in 1..Len(d.budgets) |-> Ref(i)] ELSE pg.budgets

\* the Budget records of the page's data.budgets
pageBudgets(d, pg) ==
  LET arr == pageArray(d, pg) IN [i \in 1..Len(arr) |-> Deref(d, arr[i])]

\* handleAssignMoney's merge, without the filter
mergeAssignedUnfiltered(d, arr, newBudget, categoryId, month) ==
  Append(arr, newBudget)

\* handleAssignMoney's merge: data.budgets.filter(not (categoryId, month)),
\* then push(newBudget)
mergeAssigned(d, arr, newBudget, categoryId, month) ==
  Append(SelectSeq(arr, LAMBDA x : ~IsBudgetOf(Deref(d, x), categoryId, month)),
         newBudget)

\* handleAutoAssign's merge: for each returned record, replace the first
\* element of the same categoryId and of the month, or push
RECURSIVE mergeAutoAssigned(_, _, _, _)
mergeAutoAssigned(d, arr, assigned, month) ==
  IF assigned = <<>> THEN arr
  ELSE LET newBudget == Ref(Head(assigned))
           existingIndex ==
             FindIndex(arr, LAMBDA x :
               /\ Deref(d, x).categoryId = Deref(d, newBudget).categoryId
               /\ Deref(d, x).month = month)
           updatedBudgets ==
             IF existingIndex > 0
             THEN [arr EXCEPT ![existingIndex] = newBudget]
             ELSE Append(arr, newBudget)
       IN  mergeAutoAssigned(d, updatedBudgets, Tail(assigned), month)

\* the settings tab's onUpdateBudget(categoryId, limit)
settingsUpdateBudget(d, arr, categoryId, limit, selectedMonth) ==
  LET existingBudget == \E i \in 1..Len(arr) : Deref(d, arr[i]).categoryId = categoryId
  IN  IF limit = 0
      THEN SelectSeq(arr, LAMBDA x : Deref(d, x).categoryId # categoryId)
      ELSE IF existingBudget
      THEN [i \in 1..Len(arr) |->
              IF Deref(d, arr[i]).categoryId = categoryId
              THEN Val([Deref(d, arr[i]) EXCEPT !.assigned = limit])
              ELSE arr[i]]
      ELSE Append(arr, Val([categoryId |-> categoryId,
                            month      |-> selectedMonth,
                            assigned   |-> limit,
                            activity   |-> 0,
                            available  |-> limit]))

\* the page's handleUpdateBudget(budgets): a new data object with this array
handleUpdateBudget(pg, budgets) ==
  [pg EXCEPT !.budgets = budgets, !.sameArray = FALSE]

\* transactions the dialog adds, dated in the selected month
DialogTransactions(month) ==
  { Transaction("income", "salary", MaxAmount, month),
    Transaction("expense", "groceries", 1, month) }

\* limits typed into the settings tab
Limits == 0..MaxAmount

\* budgetSummary while EnvelopeBudget is not mounted
NoSummary == [view |-> "none"]

\* budgetSummary = useMemo(() => engine.getMonthlyBudgetSummary(month),
\* [engine, month]): computed when EnvelopeBudget mounts and when the month
\* changes, kept otherwise (the engine is the same object on every render)
budgetSummaryMemo(d, view, month, memo, monthChanged) ==
  IF view # "budget" THEN NoSummary
  ELSE IF monthChanged THEN getMonthlyBudgetSummary(d, month)
  ELSE memo

UIInit ==
  /\ data \in InitialLedgers
  /\ now = Today
  /\ call = NoCall
  /\ ops = 0
  /\ \E priorities \in UIPriorityLists :
       page = [budgets       |-> <<>>,
               sameArray     |-> TRUE,
               transactions  |-> data.transactions,
               selectedMonth |-> Today,
               view          |-> "budget",
               priorities    |-> priorities,
               summary       |-> getMonthlyBudgetSummary(data, Today)]

\* handleAssignMoney after the engine call returned r: the merged array is
\* handed to onUpdateBudget
afterAssignMoney(pg, r, categoryId, month) ==
  handleUpdateBudget(pg, mergeAssigned(r.data, pageArray(r.data, pg), Ref(r.ret),
                                       categoryId, month))

\* handleAssignMoney(categoryId, amount) on the engine's ledger d and the page pg
handleAssignMoney(d, pg, categoryId, amount) ==
  IF amount = 0
  THEN [data |-> d, page |-> pg]
  ELSE LET r == assignMoney(d, categoryId, pg.selectedMonth, amount)
       IN  [data |-> r.data,
            page |-> afterAssignMoney(pg, r, categoryId, pg.selectedMonth)]

\* handleAutoAssign after the engine call returned r
afterAutoAssign(pg, r, month) ==
  [data |-> r.data,
   page |-> IF Len(r.assigned) > 0
            THEN handleUpdateBudget(pg, mergeAutoAssigned(r.data, pageArray(r.data, pg),
                                                          r.assigned, month))
            ELSE pg,
   ret  |-> r.assigned]

\* handleAutoAssign() on the engine's ledger d and the page pg
handleAutoAssign(d, pg) ==
  afterAutoAssign(pg, autoAssignMoney(d, pg.selectedMonth, pg.priorities),
                  pg.selectedMonth)

\* the engine's ledger and the page after a handler ran
Rendered(h) ==
  /\ data' = h.data
  /\ page' = h.page

\* EnvelopeBudget.handleAssignMoney(categoryId, amount)
HandleAssignMoney ==
  /\ ops < MaxUIOps
  /\ page.view = "budget"
  /\ \E categoryId \in AssignCategoryIds, amount \in AssignAmounts :
       /\ Rendered(handleAssignMoney(data, page, categoryId, amount))
       /\ call' = [op |-> "handleAssignMoney", categoryId |-> categoryId,
                   month |-> page.selectedMonth, amount |-> amount,
                   pre |-> data.budgets, prePage |-> pageBudgets(data, page)]
  /\ ops' = ops + 1
  /\ UNCHANGED now

\* EnvelopeBudget.handleAutoAssign()
HandleAutoAssign ==
  /\ ops < MaxUIOps
  /\ page.view = "budget"
  /\ Rendered(handleAutoAssign(data, page))
  /\ call' = [op |-> "handleAutoAssign", month |-> page.selectedMonth,
              pre |-> data.budgets, prePage |-> pageBudgets(data, page)]
  /\ ops' = ops + 1
  /\ UNCHANGED now

\* the page's handleSaveTransaction for a new transaction: the new data object
\* keeps the budgets array, the mounted engine keeps its old data object
HandleSaveTransaction ==
  /\ ops < MaxUIOps
  /\ Len(page.transactions) < MaxTx
  /\ \E t \in DialogTransactions(page.selectedMonth) :
       /\ page' = [page EXCEPT !.transactions = Append(@, t)]
       /\ call' = [op |-> "handleSaveTransaction", transaction |-> t]
  /\ ops' = ops + 1
  /\ UNCHANGED <<data, now>>

\* the page's navigateMonth(direction)
NavigateMonth ==
  /\ ops < MaxUIOps
  /\ \E direction \in {"prev", "next"} :
       LET month == IF direction = "next"
                    THEN getNextMonth(page.selectedMonth)
                    ELSE getPreviousMonth(page.selectedMonth)
       IN  /\ month \in Months
           /\ page' = [page EXCEPT !.selectedMonth = month,
                                   !.summary = budgetSummaryMemo(data, page.view,
                                                                 month, @, TRUE)]
           /\ call' = [op |-> "navigateMonth", direction |-> direction]
  /\ ops' = ops + 1
  /\ UNCHANGED <<data, now>>

\* setView(v): the tab's content is rendered only while its tab is selected, so
\* selecting the budget tab mounts EnvelopeBudget, which constructs its engine
\* on the page's current data object
SetView ==
  /\ ops < MaxUIOps
  /\ \E v \in {"budget", "settings"} :
       /\ v # page.view
       /\ call' = [op |-> "setView", view |-> v]
       /\ IF v = "budget"
          THEN /\ data' = [data EXCEPT !.budgets = pageBudgets(data, page),
                                       !.transactions = page.transactions]
               /\ page' = [page EXCEPT !.view = v, !.budgets = <<>>,
                                       !.sameArray = TRUE,
                                       !.summary = budgetSummaryMemo(data', v,
                                                     page.selectedMonth, @, TRUE)]
          ELSE /\ page' = [page EXCEPT !.view = v,
                                       !.summary = budgetSummaryMemo(data, v,
                                                     page.selectedMonth, @, FALSE)]
               /\ UNCHANGED data
  /\ ops' = ops + 1
  /\ UNCHANGED now

\* the settings tab's onUpdateBudget(categoryId, limit)
SettingsUpdateBudget ==
  /\ ops < MaxUIOps
  /\ page.view = "settings"
  /\ \E categoryId \in AssignCategoryIds, limit \in Limits :
       /\ page' = handleUpdateBudget(page,
                    settingsUpdateBudget(data, pageArray(data, page), categoryId,
                                         limit, page.selectedMonth))
       /\ call' = [op |-> "settingsUpdateBudget", categoryId |-> categoryId,
                   limit |-> limit, prePage |-> pageBudgets(data, page)]
  /\ ops' = ops + 1
  /\ UNCHANGED <<data, now>>

UINext ==
  \/ HandleAssignMoney
  \/ HandleAutoAssign
  \/ HandleSaveTransaction
  \/ NavigateMonth
  \/ SetView
  \/ SettingsUpdateBudget

UISpec == UIInit /\ [][UINext]_vars

----------------------------------------------------------------------------
\* The debt dashboard: the page owns the accounts, the engine computes the
\* payoff plan of the ledger it is constructed with

MaxDebtOps == 2

Account(id, type, balance, interestRate) ==
  [id |-> id, type |-> type, balance |-> balance, interestRate |-> interestRate,
   isActive |-> TRUE]

\* an account that was closed
ClosedAccount(id, type, balance, interestRate) ==
  [Account(id, type, balance, interestRate) EXCEPT !.isActive = FALSE]

\* the accounts of the ledgers the page is loaded with
AccountLists ==
  { << Account("checking", "checking", 1500, undefined),
       Account("savings", "savings", 0, undefined) >>,
    << Account("card-1", "credit_card", -500, <<24>>),
       Account("checking", "checking", 1500, undefined),
       Account("card-2", "credit_card", -5000, <<12>>),
       Account("loan-1", "loan", -1000, <<5>>) >>,
    << Account("card-1", "credit_card", -2000, <<24>>),
       Account("loan-1", "loan", -1200, <<0>>),
       Account("card-2", "credit_card", -2000, <<30>>),
       Account("savings", "savings", 300, <<2>>) >>,
    << Account("loan-1", "loan", -1200, undefined),
       Account("card-1", "credit_card", 0, undefined),
       Account("card-2", "credit_card", 300, <<0>>) >>,
    << Account("checking", "checking", 2000, undefined),
       Account("card-1", "credit_card", -500, undefined) >>,
    << Account("checking", "checking", 2000, undefined),
       ClosedAccount("card-3", "credit_card", -500, <<0>>),
       ClosedAccount("savings", "savings", 100, undefined) >>,
    << Account("card-1", "credit_card", -1000, <<12>>),
       Account("card-2", "credit_card", -1000, <<12>>),
       Account("card-3", "credit_card", -400, <<12>>) >> }

\* the accounts the account dialog saves
UpdatedAccounts ==
  { Account("card-1", "credit_card", -3000, <<18>>),
    Account("loan-1", "loan", -2400, <<0>>),
    Account("card-2", "checking", 50, undefined) }

\* the extra monthly payment entered on the dashboard (any number can be typed)
ExtraPayments == {-50, 0, 100}

Strategies == {"avalanche", "snowball"}

\* the strategy of the settings the dashboard plans with: 'custom' is planned
\* as avalanche
DashboardStrategies == {"custom"}

\* strategy === 'custom' ? 'avalanche' : strategy
planStrategy(strategy) == IF strategy = "custom" THEN "avalanche" ELSE strategy

\* payoffPlan.reduce((sum, debt) => sum + debt.totalInterest, 0)
RECURSIVE totalInterestFrom(_, _)
totalInterestFrom(sum, plan) ==
  IF plan = <<>> THEN sum
  ELSE totalInterestFrom(NumAdd(sum, Head(plan).totalInterest), Tail(plan))

totalInterestOf(plan) == totalInterestFrom(RatZero, plan)

\* debtOverview.totalInterest: the total interest of the plan with the
\* extra payment entered
debtOverviewTotalInterest(d, extraPayment, strategy) ==
  totalInterestOf(calculateDebtPayoffPlan(d, extraPayment, planStrategy(strategy)))

\* the amount after "saves" in the extra payment control
interestSaved(d, extraPayment, strategy) ==
  NumMax(RatZero,
         NumSub(debtOverviewTotalInterest(d, extraPayment, strategy),
                totalInterestOf(calculateDebtPayoffPlan(d, 0, planStrategy(strategy)))))

DebtLedger(accounts) ==
  [accounts |-> accounts, budgets |-> <<>>, transactions |-> <<>>, goals |-> NoGoals]

DebtInit ==
  /\ data \in {DebtLedger(accounts) : accounts \in AccountLists}
  /\ now = Today
  /\ call = NoCall
  /\ ops = 0
  /\ page = NoPage

\* page.tsx handleUpdateAccount(account)
handleUpdateAccount(d, account) ==
  [d EXCEPT !.accounts = [i \in DOMAIN @ |-> IF @[i].id = account.id THEN account ELSE @[i]]]

HandleUpdateAccount ==
  /\ ops < MaxDebtOps
  /\ \E account \in UpdatedAccounts :
       /\ data' = handleUpdateAccount(data, account)
       /\ call' = [op |-> "updateAccount", account |-> account]
  /\ ops' = ops + 1
  /\ UNCHANGED <<now, page>>

\* engine.calculateDebtPayoffPlan(extraPayment, strategy)
CalculateDebtPayoffPlan ==
  /\ ops < MaxDebtOps
  /\ \E extraPayment \in ExtraPayments, strategy \in Strategies :
       call' = [op |-> "calculateDebtPayoffPlan", extraPayment |-> extraPayment,
                strategy |-> strategy,
                plan |-> calculateDebtPayoffPlan(data, extraPayment, strategy)]
  /\ ops' = ops + 1
  /\ UNCHANGED <<data, now, page>>

\* engine.calculateNetWorth()
CalculateNetWorth ==
  /\ ops < MaxDebtOps
  /\ call' = [op |-> "calculateNetWorth", ret |-> calculateNetWorth(data)]
  /\ ops' = ops + 1
  /\ UNCHANGED <<data, now, page>>

DebtNext == HandleUpdateAccount \/ CalculateDebtPayoffPlan \/ CalculateNetWorth

DebtSpec == DebtInit /\ [][DebtNext]_vars

\* one render of the dashboard's extra payment control
RenderExtraPaymentControl ==
  /\ ops < MaxDebtOps
  /\ \E extraPayment \in ExtraPayments, strategy \in DashboardStrategies :
       call' = [op |-> "extraPaymentControl", extraPayment |-> extraPayment,
                strategy |-> strategy,
                saved |-> interestSaved(data, extraPayment, strategy)]
  /\ ops' = ops + 1
  /\ UNCHANGED <<data, now, page>>

\* the debt dashboard of the page: the account dialog and the extra payment
\* control
DashboardNext == HandleUpdateAccount \/ RenderExtraPaymentControl

DashboardSpec == DebtInit /\ [][DashboardNext]_vars

----------------------------------------------------------------------------
\* The goals tracker: goal progress is read for the goals of the ledger, and
\* auto-assignment funds them

MaxGoalOps == 2

\* the day new Date() falls on and the goals of the ledger that day; every
\* goal has its own category
GoalSeeds ==
  { [now |-> Today,
     goals |->
       << Goal("goal-1", "vacation", "target_date", 1200, << <<2025, 7, 15>> >>, <<200>>, 0, TRUE),
          Goal("goal-2", "emergency-fund", "target_date", 1200, << <<2025, 7, 15>> >>, <<150>>, 0, TRUE),
          Goal("goal-3", "groceries", "target_date", 1300, << <<2026, 1, 15>> >>, undefined, 100, TRUE),
          Goal("goal-4", "salary", "target_date", 500, << <<2025, 7, 15>> >>, <<0>>, 500, TRUE) >>],
    [now |-> FirstMonth,
     goals |->
       << Goal("goal-1", "vacation", "target_date", 1300, << <<2025, 6, 15>> >>, <<200>>, 100, TRUE),
          Goal("goal-2", "emergency-fund", "target_date", 500, << <<2024, 10, 15>> >>, undefined, 0, TRUE),
          Goal("goal-3", "groceries", "target_date", 500, << <<2024, 12, 15>> >>, <<50>>, 0, TRUE),
          Goal("goal-4", "salary", "target_date", 500, undefined, <<50>>, 0, TRUE) >>],
    [now |-> Today,
     goals |->
       << Goal("goal-1", "vacation", "target_balance", 1000, << <<2025, 7, 15>> >>, <<50>>, 100, TRUE),
          Goal("goal-2", "emergency-fund", "monthly_funding", 1000, undefined, <<400>>, 100, TRUE),
          Goal("goal-3", "groceries", "monthly_funding", 1000, undefined, undefined, 100, TRUE),
          Goal("goal-4", "salary", "monthly_funding", 100, undefined, <<0>>, 300, TRUE) >>],
    [now |-> Today,
     goals |->
       << Goal("goal-1", "vacation", "monthly_funding", 6, undefined, <<2>>, 7, TRUE),
          Goal("goal-2", "emergency-fund", "target_balance", 6, undefined, undefined, 1, TRUE),
          Goal("goal-3", "groceries", "monthly_funding", 6, undefined, <<2>>, 10, TRUE) >>],
    [now |-> Today, goals |-> NoGoals] }

\* the ids calculateGoalProgress is asked about: goal-9 is no goal's id
GoalIds == {"goal-1", "goal-2", "goal-3", "goal-4", "goal-9"}

GoalInit ==
  /\ \E seed \in GoalSeeds :
       /\ now = seed.now
       /\ data = Ledger(<< Transaction("income", "salary", 3, MonthAt(2)) >>, seed.goals)
  /\ call = NoCall
  /\ ops = 0
  /\ page = NoPage

\* engine.calculateGoalProgress(goalId)
CalculateGoalProgress ==
  /\ ops < MaxGoalOps
  /\ \E goalId \in GoalIds :
       call' = [op |-> "calculateGoalProgress", goalId |-> goalId, before |-> data,
                ret |-> calculateGoalProgress(data, goalId)]
  /\ ops' = ops + 1
  /\ UNCHANGED <<data, now, page>>

\* engine.autoAssignMoney(month, priorities) from the goals view
AutoAssignGoals ==
  /\ ops < MaxGoalOps
  /\ AutoAssignMoney

GoalNext == CalculateGoalProgress \/ AutoAssignGoals

GoalSpec == GoalInit /\ [][GoalNext]_vars

----------------------------------------------------------------------------
\* Vocabulary of the properties

\* the ledger d with the budgets collection bs
WithBudgets(d, bs) == [d EXCEPT !.budgets = bs]

\* the Budget records of (categoryId, month) in a budgets collection
RecordsOf(bs, categoryId, month) ==
  {i \in 1..Len(bs) : bs[i].categoryId = categoryId /\ bs[i].month = month}

HasRecord(bs, categoryId, month) == RecordsOf(bs, categoryId, month) # {}

\* assigned(c, M): 0 when no Budget record exists for (c, M)
AssignedIn(bs, categoryId, month) ==
  IF HasRecord(bs, categoryId, month)
  THEN bs[CHOOSE i \in RecordsOf(bs, categoryId, month) : TRUE].assigned
  ELSE 0

\* at most one Budget record per (categoryId, month)
Unique(bs) ==
  \A i, j \in 1..Len(bs) :
    (bs[i].categoryId = bs[j].categoryId /\ bs[i].month = bs[j].month) => i = j

\* the months calculateCategoryAvailable is asked about: the ledger's months and
\* the month after the last
QueryMonths == Months \cup {MonthAt(NumMonths + 1)}

----------------------------------------------------------------------------
\* C1: from a ledger with at most one Budget record per (categoryId, month),
\* after any sequence of handler runs (assignMoney and autoAssignMoney calls of
\* any category, month and amount, negative ones included) the engine's budgets
\* collection and the page's data.budgets each hold at most one record per
\* (categoryId, month); assignMoney on an existing pair updates that record in
\* place, and appends one record only when the pair is absent.
C1_OneRecordPerPair ==
  /\ Unique(data.budgets)
  /\ Unique(pageBudgets(data, page))
  /\ (call.op = "handleAssignMoney" /\ call.amount # 0) =>
       LET i == FindIndex(call.pre, LAMBDA b : IsBudgetOf(b, call.categoryId, call.month))
       IN  IF i # 0
           THEN /\ Len(data.budgets) = Len(call.pre)
                /\ data.budgets[i].assigned = call.pre[i].assigned + call.amount
                /\ \A j \in 1..Len(call.pre) : j # i => data.budgets[j] = call.pre[j]
           ELSE /\ Len(data.budgets) = Len(call.pre) + 1
                /\ SubSeq(data.budgets, 1, Len(call.pre)) = call.pre
                /\ IsBudgetOf(data.budgets[Len(data.budgets)], call.categoryId, call.month)
  /\ call.op = "handleAutoAssign" =>
       /\ Len(data.budgets) >= Len(call.pre)
       /\ \A j \in (Len(call.pre) + 1)..Len(data.budgets) :
            ~HasRecord(call.pre, data.budgets[j].categoryId, data.budgets[j].month)

\* C1 witness: the engine, holding the data object of an earlier render,
\* updates in place a record of a pair the page's array of two or more records
\* already holds, and the handler's merge puts it back once
C1_Witness ==
  /\ call.op = "handleAssignMoney"
  /\ call.amount < 0
  /\ HasRecord(call.pre, call.categoryId, call.month)
  /\ HasRecord(call.prePage, call.categoryId, call.month)
  /\ Len(call.prePage) >= 2
  /\ ~page.sameArray
  /\ Len(data.budgets) = Len(call.pre)
  /\ Cardinality(RecordsOf(pageBudgets(data, page), call.categoryId, call.month)) = 1

\* C2: for every category c and month M whose previous month has a Budget
\* record of c, calculateCategoryAvailable(c, M) =
\* calculateCategoryAvailable(c, M-1) + assigned(c, M) + activity(c, M).
\* (The claim states it for every c and M; it is stated here where the recursion
\* has a previous record to read, the case every reading of the claim covers.)
C2_AvailableRecurrence ==
  \A c \in CategoryIds, m \in QueryMonths :
    HasRecord(data.budgets, c, getPreviousMonth(m)) =>
      calculateCategoryAvailable(data, c, m)
        = calculateCategoryAvailable(data, c, getPreviousMonth(m))
          + AssignedIn(data.budgets, c, m) + getCategoryActivity(data, c, m)

----------------------------------------------------------------------------
\* C3: assignMoney(c, M, amount) adds amount (positive or negative) to the
\* assigned field of the (c, M) Budget record, creating the record with
\* assigned = amount when it is absent (also for a category with no
\* transactions), and is additive: assignMoney(c, M, a) followed by
\* assignMoney(c, M, b) leaves the same assigned as assignMoney(c, M, a + b).
C3_AssignMoneyAdditive ==
  call.op = "assignMoney" =>
    LET c == call.categoryId
        m == call.month
    IN  /\ IsBudgetOf(data.budgets[call.ret], c, m)
        /\ data.budgets[call.ret].assigned = AssignedIn(call.pre, c, m) + call.amount
        /\ Len(data.budgets) = Len(call.pre) + (IF HasRecord(call.pre, c, m) THEN 0 ELSE 1)
        /\ \A b \in AssignAmounts :
             AssignedIn(assignMoney(data, c, m, b).data.budgets, c, m)
               = AssignedIn(assignMoney(WithBudgets(data, call.pre), c, m,
                                        call.amount + b).data.budgets, c, m)

\* assignMoney(c, M, 1) was called on a record whose assigned was 1: it is now 2
C3_Witness ==
  /\ call.op = "assignMoney"
  /\ call.amount = 1
  /\ HasRecord(call.pre, call.categoryId, call.month)
  /\ AssignedIn(call.pre, call.categoryId, call.month) = 1
  /\ AssignedIn(data.budgets, call.categoryId, call.month) = 2

----------------------------------------------------------------------------
\* The last call when it is an autoAssignMoney call

IsAutoAssign == call.op = "autoAssignMoney"

\* the ledger the last call started from
PreData == WithBudgets(data, call.pre)

ToBeBudgeted(d, month) == getMonthlyBudgetSummary(d, month).toBeBudgeted

\* the sum of the assigned fields of a budgets collection
TotalAssigned(bs) == SeqSum([i \in 1..Len(bs) |-> bs[i].assigned])

\* what the last call added to the assigned fields
AddedByCall == TotalAssigned(data.budgets) - TotalAssigned(call.pre)

\* the sum of the toAssign amounts of the first n assignments of the last call
AssignedBefore(n) == SeqSum([i \in 1..n |-> call.log[i].toAssign])

Range(s) == {s[i] : i \in 1..Len(s)}

----------------------------------------------------------------------------
\* C4: autoAssignMoney(M, priorities) never over-assigns: the sum of the
\* amounts it adds to assigned fields is at most the toBeBudgeted of M read
\* before the call (when that is positive), toBeBudgeted after the call is the
\* pre-call value minus that sum, and it is not negative when the pre-call
\* value was positive.
C4_NeverOverAssigns ==
  IsAutoAssign =>
    LET before == ToBeBudgeted(PreData, call.month)
        after  == ToBeBudgeted(data, call.month)
    IN  /\ AddedByCall = AssignedBefore(Len(call.log))
        /\ AddedByCall >= 0
        /\ before > 0 => AddedByCall <= before
        /\ after = before - AddedByCall
        /\ before > 0 => after >= 0

\* a call that covered an overspent envelope and topped up a goal and used up
\* all of a positive toBeBudgeted
C4_Witness ==
  /\ IsAutoAssign
  /\ ToBeBudgeted(PreData, call.month) > 0
  /\ ToBeBudgeted(data, call.month) = 0
  /\ \E j, k \in 1..Len(call.log) : call.log[j].pass = 1 /\ call.log[k].pass = 2

----------------------------------------------------------------------------
\* C5: when toBeBudgeted of M is zero or negative, autoAssignMoney(M,
\* priorities) returns an empty list and leaves every Budget record and the
\* number of records unchanged, whatever is overspent and whatever the
\* priority list holds.
C5_NothingWhenNothingToBudget ==
  /\ (IsAutoAssign /\ ToBeBudgeted(PreData, call.month) <= 0) =>
       (call.ret = <<>> /\ data.budgets = call.pre)
  /\ \A m \in Months :
       ToBeBudgeted(data, m) <= 0 =>
         \A p \in PriorityLists :
           LET r == autoAssignMoney(data, m, p)
           IN  r.assigned = <<>> /\ r.data = data

\* a call with toBeBudgeted <= 0 although an envelope of the month is overspent
\* and a goal category of the priority list is below its recommendedMonthly
C5_Witness ==
  /\ IsAutoAssign
  /\ ToBeBudgeted(PreData, call.month) <= 0
  /\ getOverspentCategories(PreData, call.month) # <<>>
  /\ \E i \in 1..Len(call.priorities) :
       goalTopUp([data |-> PreData, remainingMoney |-> 1], call.priorities[i], call.month) > 0
  /\ call.ret = <<>>

----------------------------------------------------------------------------
\* Vocabulary of the auto-assignment properties

\* a goal category with an active goal
IsFundable(categoryId) ==
  /\ \E i \in 1..Len(categories) : categories[i].id = categoryId /\ categories[i].isGoal
  /\ \E i \in 1..Len(data.goals) :
       data.goals[i].categoryId = categoryId /\ data.goals[i].isActive

\* the recommendedMonthly of the category's goal: its first active goal
GoalOf(categoryId) ==
  data.goals[CHOOSE i \in 1..Len(data.goals) :
               /\ data.goals[i].categoryId = categoryId /\ data.goals[i].isActive
               /\ \A j \in 1..(i - 1) :
                    ~(data.goals[j].categoryId = categoryId /\ data.goals[j].isActive)]

RecommendedMonthly(categoryId) ==
  calculateGoalProgress(data, GoalOf(categoryId).id).recommendedMonthly

\* position of the first occurrence of x in the sequence s
FirstPos(s, x) == CHOOSE i \in 1..Len(s) : s[i] = x /\ \A j \in 1..(i - 1) : s[j] # x

\* the total overspending of a month over all categories
OverspendingOfCategories(d, month) ==
  LET cs == [i \in 1..Len(categories) |->
               Max(0, -(calculateCategoryAvailable(d, categories[i].id, month)))]
  IN  SeqSum(cs)

----------------------------------------------------------------------------
\* C6: pass 1 of autoAssignMoney(M, ...) covers every envelope whose available
\* for M is negative; consequently, when the pre-call toBeBudgeted is at least
\* the total overspending of M, no category has a negative
\* calculateCategoryAvailable(c, M) after the call.
C6_NoOverspendingLeft ==
  (/\ IsAutoAssign
   /\ ToBeBudgeted(PreData, call.month) > 0
   /\ ToBeBudgeted(PreData, call.month) >= OverspendingOfCategories(PreData, call.month))
  => \A c \in CategoryIds : calculateCategoryAvailable(data, c, call.month) >= 0

----------------------------------------------------------------------------
\* C7: pass 2 of autoAssignMoney runs only after pass 1 and walks the priority
\* list in order: only goal categories with an active Goal receive money, each
\* is topped up to at most its goal's recommendedMonthly (nothing is added
\* when assigned already meets it, also for a category listed twice), capped
\* by the remaining funds; a category later in the list receives money only if
\* every fundable category earlier in the list has reached its
\* recommendedMonthly, and the walk stops once the funds reach zero.
C7_GoalPass ==
  IsAutoAssign =>
    LET log == call.log
        m == call.month
        p == call.priorities
        n == Len(call.log)
        funds == ToBeBudgeted(PreData, m)
    IN  /\ \A j, k \in 1..n : j < k => log[j].pass <= log[k].pass
        /\ \A k \in 1..n :
             log[k].pass = 2 =>
               LET c == log[k].categoryId
               IN  /\ c \in Range(p)
                   /\ IsFundable(c)
                   /\ log[k].toAssign > 0
                   /\ AssignedBefore(k - 1) < funds
                   /\ log[k].toAssign <= funds - AssignedBefore(k - 1)
                   /\ AssignedIn(data.budgets, c, m) <= RecommendedMonthly(c)
                   /\ \A j \in 1..n : (log[j].pass = 2 /\ log[j].categoryId = c) => j = k
                   /\ \A j \in 1..(k - 1) :
                        log[j].pass = 2 => FirstPos(p, log[j].categoryId) < FirstPos(p, c)
                   /\ \A i \in 1..(FirstPos(p, c) - 1) :
                        IsFundable(p[i]) =>
                          AssignedIn(data.budgets, p[i], m) >= RecommendedMonthly(p[i])
        /\ (funds > 0 /\ AssignedBefore(n) < funds) =>
             \A i \in 1..Len(p) :
               IsFundable(p[i]) => AssignedIn(data.budgets, p[i], m) >= RecommendedMonthly(p[i])

\* a call whose pass 1 covered an overspent envelope and whose pass 2 then gave
\* a goal category less than its recommendedMonthly, the funds running out
C7_Witness ==
  /\ IsAutoAssign
  /\ \E j, k \in 1..Len(call.log) :
       /\ call.log[j].pass = 1
       /\ call.log[k].pass = 2
       /\ AssignedIn(data.budgets, call.log[k].categoryId, call.month)
            < RecommendedMonthly(call.log[k].categoryId)
  /\ ToBeBudgeted(data, call.month) = 0

----------------------------------------------------------------------------
\* C8: autoAssignMoney returns the Budget records it touched in processing
\* order: one entry per assignment, the overspent envelopes first (in the order
\* of the budgets collection), then the goal top-ups (in priority-list order);
\* every returned record belongs to month M and no record outside the returned
\* list was changed.
C8_ReturnedList ==
  IsAutoAssign =>
    LET log == call.log
        ret == call.ret
        m == call.month
        n == Len(call.ret)
        overspent == getOverspentCategories(PreData, m)
        n1 == Cardinality({k \in 1..Len(log) : log[k].pass = 1})
    IN  /\ Len(log) = n
        /\ \A k \in 1..n :
             /\ ret[k] \in 1..Len(data.budgets)
             /\ IsBudgetOf(data.budgets[ret[k]], log[k].categoryId, m)
             /\ log[k].toAssign # 0
        /\ n1 <= Len(overspent)
        /\ \A k \in 1..n1 : log[k].pass = 1 /\ log[k].categoryId = overspent[k]
        /\ \A j, k \in 1..n1 : j < k => ret[j] < ret[k]
        /\ (ToBeBudgeted(PreData, m) > 0 /\ n1 < Len(overspent)) =>
             (n = n1 /\ AssignedBefore(n) = ToBeBudgeted(PreData, m))
        /\ \A j, k \in (n1 + 1)..n :
             j < k => FirstPos(call.priorities, log[j].categoryId)
                        < FirstPos(call.priorities, log[k].categoryId)
        /\ Len(data.budgets) >= Len(call.pre)
        /\ \A i \in 1..Len(data.budgets) :
             i \notin Range(ret) => (i <= Len(call.pre) /\ data.budgets[i] = call.pre[i])
        /\ TotalAssigned(data.budgets) - TotalAssigned(call.pre) = AssignedBefore(n)

\* a call that returned an overspent envelope's record followed by the records
\* of two goal top-ups, one of them created by the call
C8_Witness ==
  /\ IsAutoAssign
  /\ Len(call.ret) >= 3
  /\ call.log[1].pass = 1
  /\ call.log[Len(call.log)].pass = 2
  /\ \E k \in 1..Len(call.ret) : call.ret[k] > Len(call.pre)
  /\ \E i \in 1..Len(call.pre) : i \notin Range(call.ret)

----------------------------------------------------------------------------
\* Vocabulary of the available-to-budget properties

\* months counted from year 0, and back
MonthNumber(month) == month[1] * 12 + (month[2] - 1)

MonthOfNumber(n) == <<n \div 12, (n % 12) + 1>>

MonthBefore(month) == MonthOfNumber(MonthNumber(month) - 1)

\* the sum of f[i] over the indices i in I
RECURSIVE SumOver(_, _)
SumOver(I, f) ==
  IF I = {} THEN 0
  ELSE LET i == CHOOSE x \in I : TRUE IN f[i] + SumOver(I \ {i}, f)

\* the sum of the amounts of the income transactions dated in a month
IncomeOf(month) ==
  SumOver({i \in 1..Len(data.transactions) :
             /\ data.transactions[i].type = "income"
             /\ <<data.transactions[i].date[1], data.transactions[i].date[2]>> = month},
          [i \in 1..Len(data.transactions) |-> data.transactions[i].amount])

\* the sum of the assigned fields of the Budget records of a month
AssignedOf(month) ==
  SumOver({i \in 1..Len(data.budgets) : data.budgets[i].month = month},
          [i \in 1..Len(data.budgets) |-> data.budgets[i].assigned])

\* the sum, over the Budget records of a month with a negative available, of
\* the absolute value of that available
OverspendingOf(month) ==
  SumOver({i \in 1..Len(data.budgets) :
             /\ data.budgets[i].month = month
             /\ calculateCategoryAvailable(data, data.budgets[i].categoryId, month) < 0},
          [i \in 1..Len(data.budgets) |->
             Abs(calculateCategoryAvailable(data, data.budgets[i].categoryId,
                                            data.budgets[i].month))])

ExpectedAvailableToBudget(month) ==
  IncomeOf(month)
  + Max(0, IncomeOf(MonthBefore(month)) - AssignedOf(MonthBefore(month)))
  - OverspendingOf(MonthBefore(month))

----------------------------------------------------------------------------
\* C9: calculateAvailableToBudget(M) = (income of M) + max(0, income of M-1
\* minus total assigned of M-1) - (total overspending of M-1), for every month
\* M, January included (its previous month is December of the year before).
C9_AvailableToBudget ==
  /\ \A m \in QueryMonths :
       calculateAvailableToBudget(data, m) = ExpectedAvailableToBudget(m)
  /\ call.op = "read" =>
       call.summary.availableToBudget = ExpectedAvailableToBudget(call.month)

\* the summary of a January was read with income in January, unassigned income
\* left from December and an overspent envelope in December
C9_Witness ==
  /\ call.op = "read"
  /\ call.month[2] = 1
  /\ IncomeOf(call.month) > 0
  /\ IncomeOf(MonthBefore(call.month)) - AssignedOf(MonthBefore(call.month)) > 0
  /\ OverspendingOf(MonthBefore(call.month)) > 0
  /\ call.summary.availableToBudget < IncomeOf(call.month)

----------------------------------------------------------------------------
\* C10: the total overspending of a month used by calculateAvailableToBudget is
\* the sum, over all envelopes (categories) whose available in that month is
\* negative, of the absolute value of that available: every category with a
\* negative calculateCategoryAvailable contributes, the others contribute 0.
C10_OverspendingOfAllCategories ==
  call.op = "read" =>
    LET previousMonth == MonthBefore(call.month)
    IN  /\ calculateOverspending(data, previousMonth)
             = OverspendingOfCategories(data, previousMonth)
        /\ call.summary.availableToBudget
             = IncomeOf(call.month)
               + Max(0, IncomeOf(previousMonth) - AssignedOf(previousMonth))
               - OverspendingOfCategories(data, previousMonth)


----------------------------------------------------------------------------
\* Vocabulary of the look-back properties

\* the ledger d without its last transaction
WithoutLastTransaction(d) ==
  [d EXCEPT !.transactions = SubSeq(@, 1, Len(@) - 1)]

\* the ledger the last call started from, for the calls that change the ledger
LedgerBefore ==
  IF call.op = "addTransaction" THEN WithoutLastTransaction(data) ELSE PreData

\* the month the last call wrote to
MonthWritten ==
  IF call.op = "addTransaction"
  THEN <<call.transaction.date[1], call.transaction.date[2]>>
  ELSE call.month

\* the ledger d cut down to the transactions and Budget records of month and
\* of the month before it
OnlyMonthAndPrevious(d, month) ==
  LET kept == {month, MonthBefore(month)}
  IN  [d EXCEPT
         !.budgets = SelectSeq(@, LAMBDA b : b.month \in kept),
         !.transactions = SelectSeq(@, LAMBDA t : <<t.date[1], t.date[2]>> \in kept)]

\* C11: calculateAvailableToBudget(M) looks exactly one month back: it is
\* determined by the transactions and Budget records of M and M-1 only, so an
\* assignMoney call or an added transaction for a month earlier than M-1
\* leaves calculateAvailableToBudget(M) unchanged.
C11_OneMonthLookBack ==
  /\ \A m \in QueryMonths :
       calculateAvailableToBudget(data, m)
         = calculateAvailableToBudget(OnlyMonthAndPrevious(data, m), m)
  /\ call.op \in {"assignMoney", "addTransaction"} =>
       \A m \in QueryMonths :
         MonthNumber(MonthWritten) < MonthNumber(m) - 1 =>
           calculateAvailableToBudget(data, m)
             = calculateAvailableToBudget(LedgerBefore, m)

----------------------------------------------------------------------------
\* C12: for every month M and every ledger state getMonthlyBudgetSummary(M)
\* returns totalAssigned = the sum of assigned over the Budget records of M,
\* toBeBudgeted = availableToBudget - totalAssigned exactly, isFullyAssigned =
\* (toBeBudgeted = 0) and isOverAssigned = (toBeBudgeted < 0); the two flags
\* are never both true.
C12_MonthlyBudgetSummary ==
  /\ \A m \in QueryMonths :
       LET s == getMonthlyBudgetSummary(data, m)
       IN  /\ s.totalAssigned = AssignedOf(m)
           /\ s.availableToBudget = calculateAvailableToBudget(data, m)
           /\ s.toBeBudgeted = s.availableToBudget - AssignedOf(m)
           /\ s.isFullyAssigned = (s.toBeBudgeted = 0)
           /\ s.isOverAssigned = (s.toBeBudgeted < 0)
           /\ ~(s.isFullyAssigned /\ s.isOverAssigned)
  /\ call.op = "read" =>
       /\ call.summary.totalAssigned = AssignedOf(call.month)
       /\ call.summary.toBeBudgeted = call.summary.availableToBudget - AssignedOf(call.month)
       /\ call.summary.isFullyAssigned = (call.summary.toBeBudgeted = 0)
       /\ call.summary.isOverAssigned = (call.summary.toBeBudgeted < 0)

\* a summary was read of a month with records of two categories, more assigned
\* than available to budget, and records of another month in the ledger
C12_Witness ==
  /\ call.op = "read"
  /\ Cardinality({i \in 1..Len(data.budgets) : data.budgets[i].month = call.month}) >= 2
  /\ \E i \in 1..Len(data.budgets) :
       data.budgets[i].month # call.month /\ data.budgets[i].assigned # 0
  /\ call.summary.totalAssigned > 0
  /\ call.summary.isOverAssigned
  /\ ~call.summary.isFullyAssigned

----------------------------------------------------------------------------
\* Properties of the debt payoff plan

DebtTypes == {"credit_card", "loan"}

\* the positions of the plan's entries for an account
EntriesOf(plan, accountId) == {k \in DOMAIN plan : plan[k].accountId = accountId}

\* the payoffOrder values of the accounts ids, in the order of ids
OrdersOf(plan, ids) ==
  [n \in DOMAIN ids |-> plan[CHOOSE k \in EntriesOf(plan, ids[n]) : TRUE].payoffOrder]

\* the plan has one entry per credit_card or loan account, none for another
\* account, with balance = |account.balance|
OneEntryPerDebt(d, plan) ==
  /\ \A i \in DOMAIN d.accounts :
       IF d.accounts[i].type \in DebtTypes
       THEN /\ Cardinality(EntriesOf(plan, d.accounts[i].id)) = 1
            /\ \A k \in EntriesOf(plan, d.accounts[i].id) :
                 plan[k].balance = Abs(d.accounts[i].balance)
       ELSE EntriesOf(plan, d.accounts[i].id) = {}
  /\ \A k \in DOMAIN plan : \E i \in DOMAIN d.accounts : d.accounts[i].id = plan[k].accountId

\* the accounts of the example: rates 24, 12, 5 and balances 500, 5000, 1000
IsExample(d) ==
  /\ getDebtAccounts(d) # <<>>
  /\ [i \in DOMAIN getDebtAccounts(d) |->
        <<getDebtAccounts(d)[i].id, Abs(getDebtAccounts(d)[i].balance),
          getDebtAccounts(d)[i].interestRate>>]
       = << <<"card-1", 500, <<24>>>>, <<"card-2", 5000, <<12>>>>, <<"loan-1", 1000, <<5>>>> >>

\* C13: calculateDebtPayoffPlan returns exactly one entry per account of type
\* credit_card or loan, none for another account, with balance =
\* |account.balance|; the payoffOrder values are 1..n in the order of the
\* list; under avalanche the interest rates do not increase along the list
\* (rates 24, 12, 5 get the orders 1, 2, 3), under snowball the balances do
\* not decrease (balances 500, 5000, 1000 get the orders 1, 3, 2).
C13_PayoffOrder ==
  call.op = "calculateDebtPayoffPlan" =>
    /\ OneEntryPerDebt(data, call.plan)
    /\ \A k \in DOMAIN call.plan : call.plan[k].payoffOrder = k
    /\ \A k \in DOMAIN call.plan : k + 1 \in DOMAIN call.plan =>
         IF call.strategy = "avalanche"
         THEN call.plan[k].interestRate >= call.plan[k + 1].interestRate
         ELSE call.plan[k].balance <= call.plan[k + 1].balance
    /\ IsExample(data) =>
         OrdersOf(call.plan, <<"card-1", "card-2", "loan-1">>)
           = IF call.strategy = "avalanche" THEN <<1, 2, 3>> ELSE <<1, 3, 2>>

\* a snowball plan of the example's three debts, next to an account that is
\* no debt: the debt listed last is ranked second
C13_Witness ==
  /\ call.op = "calculateDebtPayoffPlan"
  /\ call.strategy = "snowball"
  /\ IsExample(data)
  /\ \E i \in DOMAIN data.accounts : data.accounts[i].type \notin DebtTypes
  /\ Len(call.plan) = 3
  /\ call.plan[2].accountId = "loan-1"

\* x and y are the same JavaScript number (NaN taken as one value)
SameNumber(x, y) ==
  IF IsFinite(x) /\ IsFinite(y) THEN x = y \/ RatEq(x, y)
  ELSE ~IsFinite(x) /\ ~IsFinite(y) /\ x.special = y.special

\* the timeline calculatePayoffTime gives an entry for a payment
TimelineIs(entry, time) ==
  /\ SameNumber(entry.monthsToPayoff, time.months)
  /\ SameNumber(entry.totalInterest, time.totalInterest)

HasTimelineOf(entry, payment) ==
  TimelineIs(entry, calculatePayoffTime(RatOfInt(entry.balance), entry.interestRate, payment))

\* two plans rank the same debts in the same order, with the same minimum
\* payments, and agree on the timeline of every debt ranked 2 or later
SameButFirstTimeline(plan, other) ==
  /\ Len(plan) = Len(other)
  /\ \A k \in DOMAIN plan :
       /\ plan[k].accountId = other[k].accountId
       /\ plan[k].payoffOrder = other[k].payoffOrder
       /\ SameNumber(plan[k].minimumPayment, other[k].minimumPayment)
       /\ k >= 2 => /\ SameNumber(plan[k].monthsToPayoff, other[k].monthsToPayoff)
                    /\ SameNumber(plan[k].totalInterest, other[k].totalInterest)

\* C14: in calculateDebtPayoffPlan(extraPayment, strategy) the payment of the
\* debt ranked 1 is minimumPayment + extraPayment and the payment of every
\* other debt is its minimumPayment; the ranking, and the minimumPayment,
\* monthsToPayoff and totalInterest of every debt ranked 2 or later, are the
\* same for every extraPayment.
C14_ExtraOnlyOnFirst ==
  call.op = "calculateDebtPayoffPlan" =>
    /\ \A k \in DOMAIN call.plan :
         HasTimelineOf(call.plan[k],
                       IF call.plan[k].payoffOrder = 1
                       THEN RatAdd(call.plan[k].minimumPayment, RatOfInt(call.extraPayment))
                       ELSE call.plan[k].minimumPayment)
    /\ \A extraPayment \in ExtraPayments :
         SameButFirstTimeline(call.plan,
                              calculateDebtPayoffPlan(data, extraPayment, call.strategy))

\* a plan with an extra payment that shortens the first debt's payoff, and a
\* second debt that takes longer than the first
C14_Witness ==
  /\ call.op = "calculateDebtPayoffPlan"
  /\ call.extraPayment > 0
  /\ Len(call.plan) >= 2
  /\ IsFinite(call.plan[1].monthsToPayoff)
  /\ IsFinite(call.plan[2].monthsToPayoff)
  /\ IsFinite(calculateDebtPayoffPlan(data, 0, call.strategy)[1].monthsToPayoff)
  /\ RatLess(call.plan[1].monthsToPayoff,
             calculateDebtPayoffPlan(data, 0, call.strategy)[1].monthsToPayoff)
  /\ RatLess(call.plan[1].monthsToPayoff, call.plan[2].monthsToPayoff)

\* the account a plan entry was built for
AccountOf(d, entry) ==
  d.accounts[CHOOSE i \in DOMAIN d.accounts : d.accounts[i].id = entry.accountId]

\* payment is the fixed payment that amortizes balance in n months at the
\* monthly rate r > 0: payment * ((1+r)^n - 1) = balance * r * (1+r)^n
Amortizes(payment, balance, r, pow) ==
  RatEq(RatMul(payment, RatSub(pow, RatOfInt(1))), RatMul(balance, RatMul(r, pow)))

\* the minimumPayment the amortization rule gives a loan entry
IsLoanPayment(entry) ==
  IF entry.interestRate = 0
  THEN RatEq(entry.minimumPayment, RatOf(entry.balance, 120))
  ELSE Amortizes(entry.minimumPayment, RatOfInt(entry.balance),
                 RatOf(entry.interestRate, 1200),
                 RatPow(RatOf(1200 + entry.interestRate, 1200), 120))

\* C15: for a loan account the plan's minimumPayment is the fixed-payment
\* amortization amount B*r*(1+r)^n / ((1+r)^n - 1) with r = annualRate/100/12
\* and n = 120, and balance/120 when r = 0; every loan with a positive balance
\* has a positive minimumPayment.
C15_LoanMinimumPayment ==
  call.op = "calculateDebtPayoffPlan" =>
    \A k \in DOMAIN call.plan :
      AccountOf(data, call.plan[k]).type = "loan" =>
        /\ IsLoanPayment(call.plan[k])
        /\ call.plan[k].balance > 0 => RatSign(call.plan[k].minimumPayment) > 0

\* the rule holds for the loans that carry interest
C15_InterestBearingLoans ==
  call.op = "calculateDebtPayoffPlan" =>
    \A k \in DOMAIN call.plan :
      (AccountOf(data, call.plan[k]).type = "loan" /\ call.plan[k].interestRate > 0) =>
        /\ IsLoanPayment(call.plan[k])
        /\ call.plan[k].balance > 0 => RatSign(call.plan[k].minimumPayment) > 0

\* the payment calculateDebtPayoffPlan(extraPayment, ...) makes on an entry
PaymentOn(entry, extraPayment) ==
  IF entry.payoffOrder = 1
  THEN RatAdd(entry.minimumPayment, RatOfInt(extraPayment))
  ELSE entry.minimumPayment

\* x is the whole number ceil(balance / payment), for payment > 0
IsCeilOfQuotient(x, balance, payment) ==
  /\ IsFinite(x)
  /\ x.den = <<1>>
  /\ RatLeq(RatOfInt(balance), RatMul(x, payment))
  /\ RatLess(RatMul(RatSub(x, RatOfInt(1)), payment), RatOfInt(balance))

IsZero(x) == IsFinite(x) /\ RatSign(x) = 0

\* the edge cases of the payoff timeline, for an entry and its payment
PayoffEdgeCases(entry, payment) ==
  /\ RatSign(payment) <= 0 =>
       entry.monthsToPayoff = Infinity /\ IsZero(entry.totalInterest)
  /\ (RatSign(payment) > 0 /\ entry.interestRate = 0) =>
       /\ IsCeilOfQuotient(entry.monthsToPayoff, entry.balance, payment)
       /\ IsZero(entry.totalInterest)
  /\ (RatSign(payment) > 0 /\ entry.interestRate > 0 /\ IsFinite(entry.monthsToPayoff)) =>
       SameNumber(entry.totalInterest,
                  RatMax(RatZero, RatSub(RatMul(payment, entry.monthsToPayoff),
                                         RatOfInt(entry.balance))))
  /\ IsFinite(entry.totalInterest) => RatSign(entry.totalInterest) >= 0

\* C16: for a debt whose payment is zero or negative the plan reports
\* monthsToPayoff infinite and totalInterest 0; for a debt with monthly rate 0
\* and a positive payment, monthsToPayoff = ceil(balance / payment) and
\* totalInterest 0; where interest accrues totalInterest is
\* max(0, payment * months - balance); totalInterest is never negative.
C16_PayoffEdgeCases ==
  call.op = "calculateDebtPayoffPlan" =>
    \A k \in DOMAIN call.plan :
      PayoffEdgeCases(call.plan[k], PaymentOn(call.plan[k], call.extraPayment))

\* one plan with a debt paid nothing (infinite), and a debt without interest
\* whose last payment is a partial one; another call made a negative payment
C16_Witness ==
  /\ call.op = "calculateDebtPayoffPlan"
  /\ \E k \in DOMAIN call.plan :
       /\ IsZero(PaymentOn(call.plan[k], call.extraPayment))
       /\ call.plan[k].monthsToPayoff = Infinity
  /\ \E k \in DOMAIN call.plan :
       /\ call.plan[k].interestRate = 0
       /\ RatSign(PaymentOn(call.plan[k], call.extraPayment)) > 0
       /\ call.plan[k].balance > 0
       /\ IsFinite(call.plan[k].monthsToPayoff)
       /\ RatLess(RatOfInt(call.plan[k].balance),
                  RatMul(call.plan[k].monthsToPayoff,
                         PaymentOn(call.plan[k], call.extraPayment)))

\* a plan computed with a negative payment on its first debt
C16_NegativePayment ==
  /\ call.op = "calculateDebtPayoffPlan"
  /\ call.plan # <<>>
  /\ RatSign(PaymentOn(call.plan[1], call.extraPayment)) < 0
  /\ call.plan[1].monthsToPayoff = Infinity

IsWholeNumber(x) == IsFinite(x) /\ x.den = <<1>> /\ RatSign(x) >= 0

\* C17: calculateDebtPayoffPlan reports an infinite horizon only for a
\* non-positive payment: for every debt whose payment is positive, also one
\* that does not exceed the monthly interest balance * r, monthsToPayoff is a
\* finite non-negative whole number and totalInterest a finite non-negative
\* number, never NaN.
C17_FiniteForPositivePayment ==
  call.op = "calculateDebtPayoffPlan" =>
    \A k \in DOMAIN call.plan :
      RatSign(PaymentOn(call.plan[k], call.extraPayment)) > 0 =>
        /\ IsWholeNumber(call.plan[k].monthsToPayoff)
        /\ IsFinite(call.plan[k].totalInterest)
        /\ RatSign(call.plan[k].totalInterest) >= 0

\* the timeline is finite whenever the payment exceeds the monthly interest
C17_FiniteAboveInterest ==
  call.op = "calculateDebtPayoffPlan" =>
    \A k \in DOMAIN call.plan :
      RatLess(RatMul(RatOfInt(call.plan[k].balance), RatOf(call.plan[k].interestRate, 1200)),
              PaymentOn(call.plan[k], call.extraPayment)) =>
        /\ RatSign(PaymentOn(call.plan[k], call.extraPayment)) > 0
        /\ IsWholeNumber(call.plan[k].monthsToPayoff)
        /\ IsFinite(call.plan[k].totalInterest)
        /\ RatSign(call.plan[k].totalInterest) >= 0

\* a positive payment below the monthly interest: the timeline is NaN
C17_NaNTimeline ==
  /\ call.op = "calculateDebtPayoffPlan"
  /\ \E k \in DOMAIN call.plan :
       /\ RatSign(PaymentOn(call.plan[k], call.extraPayment)) > 0
       /\ call.plan[k].monthsToPayoff = NaN
       /\ call.plan[k].totalInterest = NaN

----------------------------------------------------------------------------
\* Properties of goal progress

\* the positions of the goals with an id
GoalsWithId(d, goalId) == {i \in DOMAIN d.goals : d.goals[i].id = goalId}

\* C18: calculateGoalProgress(goalId) with an id that matches no Goal fails
\* with the goal-not-found error, returns nothing else and leaves the ledger
\* unchanged; with an id that matches a Goal it does not fail; goal-not-found
\* is the only error raised, and autoAssignMoney, which looks up the goals of
\* the ledger only, does not raise it.
C18_GoalNotFound ==
  /\ \A i \in DOMAIN data.goals :
       calculateGoalProgress(data, data.goals[i].id).error = "none"
  /\ call.op = "calculateGoalProgress" =>
       /\ data = call.before
       /\ call.ret.error \in {"none", "Goal not found"}
       /\ IF GoalsWithId(data, call.goalId) = {}
          THEN call.ret = [error |-> "Goal not found"]
          ELSE /\ call.ret.error = "none"
               /\ DOMAIN call.ret = {"error", "progress", "monthsRemaining", "onTrack",
                                     "recommendedMonthly"}
  /\ call.op = "autoAssignMoney" =>
       \A i \in DOMAIN call.log :
         call.log[i].pass = 2 =>
           \E g \in DOMAIN data.goals : data.goals[g].categoryId = call.log[i].categoryId

\* a ledger with goals is asked about an id none of them has
C18_Witness ==
  /\ call.op = "calculateGoalProgress"
  /\ data.goals # <<>>
  /\ GoalsWithId(data, call.goalId) = {}
  /\ call.ret.error = "Goal not found"

\* the goal calculateGoalProgress(goalId) finds: the first one with the id
FoundGoal(d, goalId) ==
  d.goals[CHOOSE i \in GoalsWithId(d, goalId) : \A j \in GoalsWithId(d, goalId) : i <= j]

\* the calendar months a date's month lies after the month of new Date()
CalendarMonthsTo(date) == MonthNumber(<<date[1], date[2]>>) - MonthNumber(now)

\* the result r of a target_date goal.  monthlyFunding counts as unset when it
\* is undefined or 0, the value the goal form stores for an empty field
TargetDateProgress(goal, r) ==
  /\ r.monthsRemaining = Max(0, CalendarMonthsTo(goal.targetDate[1]))
  /\ r.monthsRemaining > 0 =>
       /\ r.recommendedMonthly * r.monthsRemaining = goal.targetAmount - goal.currentAmount
       /\ r.onTrack = IF truthy(goal.monthlyFunding)
                      THEN goal.monthlyFunding[1] >= r.recommendedMonthly
                      ELSE FALSE

\* C19: for a target_date goal monthsRemaining is the number of whole calendar
\* months from the current month to the target month, floored at 0; when it is
\* positive, recommendedMonthly = (targetAmount - currentAmount) /
\* monthsRemaining and onTrack = (monthlyFunding >= recommendedMonthly), false
\* when monthlyFunding is unset (6 months out, target 1200, current 0:
\* recommendedMonthly 200; funding 200 is on track, funding 150 is not).
C19_TargetDateGoal ==
  (call.op = "calculateGoalProgress" /\ call.ret.error = "none") =>
    /\ (FoundGoal(data, call.goalId).type = "target_date"
        /\ FoundGoal(data, call.goalId).targetDate # undefined) =>
         TargetDateProgress(FoundGoal(data, call.goalId), call.ret)
    /\ (now = Today /\ FoundGoal(data, call.goalId).type = "target_date"
        /\ FoundGoal(data, call.goalId).targetDate = << <<2025, 7, 15>> >>
        /\ FoundGoal(data, call.goalId).targetAmount = 1200
        /\ FoundGoal(data, call.goalId).currentAmount = 0) =>
         /\ call.ret.monthsRemaining = 6
         /\ call.ret.recommendedMonthly = 200
         /\ FoundGoal(data, call.goalId).monthlyFunding = <<200>> => call.ret.onTrack
         /\ FoundGoal(data, call.goalId).monthlyFunding = <<150>> => ~call.ret.onTrack

\* the example's goal funded with 150 a month: six months out, 200 a month
\* recommended, not on track
C19_Witness ==
  /\ call.op = "calculateGoalProgress"
  /\ call.ret.error = "none"
  /\ FoundGoal(data, call.goalId).type = "target_date"
  /\ FoundGoal(data, call.goalId).monthlyFunding = <<150>>
  /\ call.ret.monthsRemaining = 6
  /\ call.ret.recommendedMonthly = 200
  /\ ~call.ret.onTrack

\* a target date in a past month: monthsRemaining is floored at 0
C19_PastTargetDate ==
  /\ call.op = "calculateGoalProgress"
  /\ call.ret.error = "none"
  /\ FoundGoal(data, call.goalId).type = "target_date"
  /\ FoundGoal(data, call.goalId).targetDate # undefined
  /\ CalendarMonthsTo(FoundGoal(data, call.goalId).targetDate[1]) < 0
  /\ call.ret.monthsRemaining = 0

\* the result r of a monthly_funding goal
MonthlyFundingProgress(goal, r) ==
  /\ r.recommendedMonthly = IF goal.monthlyFunding = undefined THEN 0 ELSE goal.monthlyFunding[1]
  /\ IF r.recommendedMonthly > 0
     THEN /\ r.monthsRemaining * r.recommendedMonthly >= goal.targetAmount - goal.currentAmount
          /\ (r.monthsRemaining - 1) * r.recommendedMonthly < goal.targetAmount - goal.currentAmount
     ELSE r.monthsRemaining = 0
  /\ r.onTrack

\* the goal autoAssignMoney's goal pass looks up for a category
ActiveGoalOf(d, categoryId) ==
  d.goals[CHOOSE i \in DOMAIN d.goals :
            /\ d.goals[i].categoryId = categoryId /\ d.goals[i].isActive
            /\ \A j \in 1..(i - 1) : ~(d.goals[j].categoryId = categoryId /\ d.goals[j].isActive)]

\* C20: for a monthly_funding goal recommendedMonthly = monthlyFunding and,
\* when that is positive, monthsRemaining = ceil((targetAmount - currentAmount)
\* / recommendedMonthly); for a target_balance goal monthsRemaining and
\* recommendedMonthly stay 0; for both types onTrack is true; autoAssignMoney
\* adds no money for a target_balance goal in its goal pass.
C20_FundingAndBalanceGoals ==
  /\ (call.op = "calculateGoalProgress" /\ call.ret.error = "none") =>
       /\ FoundGoal(data, call.goalId).type = "monthly_funding" =>
            MonthlyFundingProgress(FoundGoal(data, call.goalId), call.ret)
       /\ FoundGoal(data, call.goalId).type = "target_balance" =>
            /\ call.ret.monthsRemaining = 0
            /\ call.ret.recommendedMonthly = 0
            /\ call.ret.onTrack
  /\ call.op = "autoAssignMoney" =>
       \A i \in DOMAIN call.log :
         call.log[i].pass = 2 =>
           ActiveGoalOf(data, call.log[i].categoryId).type # "target_balance"

\* a target_balance goal below its target, with a monthly funding and a target
\* date on record: nothing is recommended
C20_Witness ==
  /\ call.op = "calculateGoalProgress"
  /\ call.ret.error = "none"
  /\ FoundGoal(data, call.goalId).type = "target_balance"
  /\ truthy(FoundGoal(data, call.goalId).monthlyFunding)
  /\ FoundGoal(data, call.goalId).currentAmount < FoundGoal(data, call.goalId).targetAmount
  /\ call.ret.recommendedMonthly = 0
  /\ call.ret.monthsRemaining = 0

\* a monthly_funding goal whose last month is a partial one
C20_PartialLastMonth ==
  /\ call.op = "calculateGoalProgress"
  /\ call.ret.error = "none"
  /\ FoundGoal(data, call.goalId).type = "monthly_funding"
  /\ call.ret.monthsRemaining = 3
  /\ call.ret.recommendedMonthly = 400

\* the goal pass had funds, went by the category of a target_balance goal and
\* funded the goal listed after it
C20_BalanceGoalSkipped ==
  /\ call.op = "autoAssignMoney"
  /\ Len(call.priorities) = 2
  /\ \E g \in DOMAIN data.goals :
       data.goals[g].categoryId = call.priorities[1] /\ data.goals[g].isActive
  /\ ActiveGoalOf(data, call.priorities[1]).type = "target_balance"
  /\ \E i \in DOMAIN call.log :
       call.log[i].pass = 2 /\ call.log[i].categoryId = call.priorities[2]

----------------------------------------------------------------------------
\* Properties of the net worth

BalanceAt(d) == [i \in DOMAIN d.accounts |-> d.accounts[i].balance]

\* C21: calculateNetWorth returns assets = the sum of the balances of all
\* accounts with balance >= 0, liabilities = the sum of |balance| over all
\* accounts with balance < 0 and netWorth = assets - liabilities, the plain
\* sum of all account balances, active or not; assets and liabilities are
\* never negative (checking +2000 and credit card -500 give 2000, 500, 1500).
C21_NetWorth ==
  call.op = "calculateNetWorth" =>
    /\ call.ret.assets
         = SumOver({i \in DOMAIN data.accounts : data.accounts[i].balance >= 0}, BalanceAt(data))
    /\ call.ret.liabilities
         = -SumOver({i \in DOMAIN data.accounts : data.accounts[i].balance < 0}, BalanceAt(data))
    /\ call.ret.netWorth = call.ret.assets - call.ret.liabilities
    /\ call.ret.netWorth = SumOver(DOMAIN data.accounts, BalanceAt(data))
    /\ call.ret.assets >= 0
    /\ call.ret.liabilities >= 0
    /\ BalanceAt(data) = <<2000, -500>> =>
         /\ call.ret.assets = 2000
         /\ call.ret.liabilities = 500
         /\ call.ret.netWorth = 1500

\* the net worth of a ledger with a closed account in debt and open accounts
\* in credit
C21_Witness ==
  /\ call.op = "calculateNetWorth"
  /\ \E i \in DOMAIN data.accounts :
       ~data.accounts[i].isActive /\ data.accounts[i].balance < 0
  /\ call.ret.assets > 0
  /\ call.ret.liabilities > 0

\* the example: checking +2000 and a credit card at -500
C21_Example ==
  /\ call.op = "calculateNetWorth"
  /\ BalanceAt(data) = <<2000, -500>>
  /\ call.ret.netWorth = 1500

----------------------------------------------------------------------------
\* Properties of the debt dashboard

\* the plan's total interest for an extra payment
PlanInterest(d, extraPayment, strategy) ==
  totalInterestOf(calculateDebtPayoffPlan(d, extraPayment, planStrategy(strategy)))

\* saved is what the extra payment saves: the total interest without it minus
\* the total interest with it, floored at 0
IsInterestSaved(saved, without, with) ==
  (IsFinite(without) /\ IsFinite(with)) =>
    /\ IsFinite(saved)
    /\ RatEq(saved, RatMax(RatZero, RatSub(without, with)))
    /\ RatLess(with, without) => RatSign(saved) > 0

\* C24: the interest saved that the debt dashboard reports for an extra
\* monthly payment equals the plan's total interest with extraPayment = 0
\* minus the plan's total interest with the entered extra payment, floored at
\* 0; it is positive whenever the extra payment lowers the plan's total
\* interest. (Checked for the extra payments that are not negative.)
C24_InterestSaved ==
  (call.op = "extraPaymentControl" /\ call.extraPayment >= 0) =>
    IsInterestSaved(call.saved, PlanInterest(data, 0, call.strategy),
                    PlanInterest(data, call.extraPayment, call.strategy))

\* what the dashboard shows: the total interest with the extra payment minus
\* the total interest without it, floored at 0
C24_SavedIsInterestAdded ==
  call.op = "extraPaymentControl" =>
    SameNumber(call.saved,
               NumMax(RatZero, NumSub(PlanInterest(data, call.extraPayment, call.strategy),
                                      PlanInterest(data, 0, call.strategy))))

----------------------------------------------------------------------------
\* Frame properties of the engine

\* the operations of the engine (the caller, not the engine, adds transactions)
EngineOps == {"assignMoney", "autoAssignMoney", "read"}

\* the Budget records of a collection other than those of (categoryId, month),
\* in their order
RecordsBeside(bs, categoryId, month) ==
  SelectSeq(bs, LAMBDA b : ~(b.categoryId = categoryId /\ b.month = month))

\* the step just taken is an engine operation that wrote at most the budgets
\* collection; a query wrote nothing; assignMoney wrote at most the record of
\* its category and month
EngineFrame ==
  /\ call'.op \in EngineOps => data' = WithBudgets(data, data'.budgets)
  /\ call'.op = "read" => data' = data
  /\ call'.op = "assignMoney" =>
       RecordsBeside(data'.budgets, call'.categoryId, call'.month)
         = RecordsBeside(data.budgets, call'.categoryId, call'.month)

\* C22: the engine mutates nothing but the budgets collection: no operation
\* changes transactions or goals; the query operations (the month's summary and
\* every category's available, also for a month with no Budget record) change
\* nothing at all; assignMoney(c, M, x) changes only the Budget record of
\* (c, M).
C22_EngineFrame == [][EngineFrame]_vars

\* assignMoney changed the record of its category and month in a collection
\* that holds records of other categories and months
C22_Witness ==
  /\ call.op = "assignMoney"
  /\ HasRecord(call.pre, call.categoryId, call.month)
  /\ data.budgets # call.pre
  /\ \E i, j \in 1..Len(call.pre) :
       /\ call.pre[i].categoryId = call.categoryId /\ call.pre[i].month # call.month
       /\ call.pre[j].categoryId # call.categoryId /\ call.pre[j].month = call.month

\* the summary and the availables were read for a month with no Budget record
\* while other months have records
C22_ReadWithoutRecord ==
  /\ call.op = "read"
  /\ data.budgets # <<>>
  /\ \A i \in 1..Len(data.budgets) : data.budgets[i].month # call.month

----------------------------------------------------------------------------
\* Properties of what the budget tab shows

\* the ledger snapshot the page holds: its data object
pageData(d, pg) ==
  [d EXCEPT !.budgets = pageBudgets(d, pg), !.transactions = pg.transactions]

\* the three numbers of a budget summary
SummaryNumbers(summary) ==
  <<summary.availableToBudget, summary.totalAssigned, summary.toBeBudgeted>>

\* the summary EnvelopeBudget shows is the one of the ledger d
ShowsSummaryOf(d) ==
  SummaryNumbers(page.summary)
    = SummaryNumbers(getMonthlyBudgetSummary(d, page.selectedMonth))

\* every envelope's available EnvelopeBudget shows is the one of the ledger d
ShowsAvailableOf(d) ==
  \A c \in CategoryIds :
    calculateCategoryAvailable(data, c, page.selectedMonth)
      = calculateCategoryAvailable(d, c, page.selectedMonth)

\* C23: after any sequence of user actions on the budget tab (saving a
\* transaction, assigning money, auto-assigning) the budget summary
\* (availableToBudget, totalAssigned, toBeBudgeted) and each envelope's
\* available shown by EnvelopeBudget equal the values a fresh engine computes
\* from the ledger snapshot the page holds.
C23_NumbersAreCurrent ==
  page.view = "budget" =>
    /\ ShowsSummaryOf(pageData(data, page))
    /\ ShowsAvailableOf(pageData(data, page))

----------------------------------------------------------------------------
\* Rollover

\* the category has no assignment and no transaction in the month
Untouched(d, categoryId, month) ==
  /\ AssignedIn(d.budgets, categoryId, month) = 0
  /\ getCategoryActivity(d, categoryId, month) = 0

\* what is available in the category in the month is what was available the
\* month before
RollsOver(d, categoryId, month) ==
  calculateCategoryAvailable(d, categoryId, month)
    = calculateCategoryAvailable(d, categoryId, getPreviousMonth(month))

\* C25: unused money rolls forward: for every category c and month M, if c has
\* no assignment and no transaction in month M+1 then
\* calculateCategoryAvailable(c, M+1) = calculateCategoryAvailable(c, M),
\* whether or not a Budget record exists for (c, M) and whatever the order of
\* the assignments and transactions of month M.
C25_Rollover ==
  \A c \in AssignCategoryIds, month \in Months :
    Untouched(data, c, getNextMonth(month)) => RollsOver(data, c, getNextMonth(month))

\* the same for the month after the one assignMoney just wrote, when the
\* month before it holds no record of the category
C25_RolloverOfFreshRecord ==
  (call.op = "assignMoney" /\ ~HasRecord(data.budgets, call.categoryId, getPreviousMonth(call.month)))
    => (Untouched(data, call.categoryId, getNextMonth(call.month))
          => RollsOver(data, call.categoryId, getNextMonth(call.month)))

----------------------------------------------------------------------------
\* The stored available

\* the available stored in the record is what calculateCategoryAvailable
\* computes for its category and month on the ledger d
StoredIsComputed(d, b) ==
  b.available = calculateCategoryAvailable(d, b.categoryId, b.month)

\* C26: after any sequence of assignMoney and autoAssignMoney calls on a ledger
\* whose transactions do not change, the available stored in every Budget
\* record equals calculateCategoryAvailable(categoryId, month) on the current
\* ledger: for the record just assigned and for the records of every other
\* month of the category. (Checked on the ledgers that never held a
\* transaction.)
C26_StoredAvailable ==
  (data.transactions = <<>> /\ call.op \in {"assignMoney", "autoAssignMoney"}) =>
    \A i \in 1..Len(data.budgets) : StoredIsComputed(data, data.budgets[i])

\* the same for the record just assigned by assignMoney when it existed before
\* the call
C26_StoredAvailableOfExisting ==
  (call.op = "assignMoney" /\ HasRecord(call.pre, call.categoryId, call.month)) =>
    StoredIsComputed(data, data.budgets[call.ret])

----------------------------------------------------------------------------
\* Assigning and unassigning

\* the values the engine derives from the ledger d: every category's available
\* in every month, and every month's availableToBudget and summary
DerivedValues(d) ==
  [available |-> [p \in CategoryIds \X QueryMonths |->
                    calculateCategoryAvailable(d, p[1], p[2])],
   availableToBudget |-> [m \in Months |-> calculateAvailableToBudget(d, m)],
   summary |-> [m \in Months |-> getMonthlyBudgetSummary(d, m)]]

\* the categories and amounts autoAssignMoney would assign on the ledger d, for
\* every month and priority list
AutoAssignments(d) ==
  [p \in Months \X PriorityLists |-> autoAssignMoney(d, p[1], p[2]).log]

\* the ledger after has the derived values of the ledger before
SameDerivedValues(before, after) ==
  /\ DerivedValues(after) = DerivedValues(before)
  /\ AutoAssignments(after) = AutoAssignments(before)

\* C27: assignMoney(c, M, x) followed by assignMoney(c, M, -x) restores every
\* derived value to what it was before the two calls: calculateCategoryAvailable
\* for every category and month, calculateAvailableToBudget and
\* getMonthlyBudgetSummary for every month, and the result of a following
\* autoAssignMoney, also when no Budget record for (c, M) existed before the
\* first call. (Stated in the state after the first call, for the ledger the
\* second call leaves.)
C27_RoundTrip ==
  call.op = "assignMoney" =>
    SameDerivedValues(PreData,
                      assignMoney(data, call.categoryId, call.month, -call.amount).data)

\* the same when the record of (c, M) existed before the first call and its
\* stored available was current
C27_RoundTripOfCurrentRecord ==
  (/\ call.op = "assignMoney"
   /\ HasRecord(call.pre, call.categoryId, call.month)
   /\ \A i \in RecordsOf(call.pre, call.categoryId, call.month) :
        StoredIsComputed(PreData, call.pre[i])) =>
    SameDerivedValues(PreData,
                      assignMoney(data, call.categoryId, call.month, -call.amount).data)

----------------------------------------------------------------------------
\* Auto-assignment twice

\* autoAssignMoney(month, priorities) on the ledger d returns an empty list
\* and leaves the ledger as it is
AssignsNothing(d, r) == r.assigned = <<>> /\ r.data = d

\* C28: autoAssignMoney is idempotent: called a second time right after a
\* first call, with the same arguments and no other change to the ledger in
\* between, it returns an empty list and leaves every Budget record unchanged.
\* (Stated in the state after the first call, for the call that follows.)
C28_AutoAssignTwice ==
  call.op = "autoAssignMoney" =>
    AssignsNothing(data, autoAssignMoney(data, call.month, call.priorities))

----------------------------------------------------------------------------
\* Months remaining

\* targetAmount, currentAmount and monthlyFunding of the goal are not negative
NonNegativeGoal(goal) ==
  /\ goal.targetAmount >= 0
  /\ goal.currentAmount >= 0
  /\ (goal.monthlyFunding # undefined => goal.monthlyFunding[1] >= 0)

\* C29: calculateGoalProgress never returns a negative monthsRemaining: for
\* every goal of every type with non-negative targetAmount, currentAmount and
\* monthlyFunding (a goal whose currentAmount exceeds its targetAmount
\* included), monthsRemaining >= 0.
C29_MonthsRemainingNotNegative ==
  (/\ call.op = "calculateGoalProgress"
   /\ call.ret.error = "none"
   /\ NonNegativeGoal(FoundGoal(data, call.goalId))) =>
    call.ret.monthsRemaining >= 0

\* the same for the goals that are not funded monthly, and for those whose
\* currentAmount does not exceed the target
C29_NotNegativeUnlessOverfunded ==
  (/\ call.op = "calculateGoalProgress"
   /\ call.ret.error = "none"
   /\ \/ FoundGoal(data, call.goalId).type # "monthly_funding"
      \/ FoundGoal(data, call.goalId).currentAmount <= FoundGoal(data, call.goalId).targetAmount) =>
    call.ret.monthsRemaining >= 0

----------------------------------------------------------------------------
\* The settings tab

C30_OtherCategoriesKept ==
  call.op = "settingsUpdateBudget" =>
    SelectSeq(pageBudgets(data, page), LAMBDA b : b.categoryId # call.categoryId)
      = SelectSeq(call.prePage, LAMBDA b : b.categoryId # call.categoryId)

====
